---- MODULE Spec2Model ----
(***************************************************************************)
(* Model of the xiinko trading bot: the MA-crossover strategy              *)
(* (lib/strategy.js), the in-memory state store (lib/state.js), the        *)
(* per-pair execution pipeline and the cycle scheduler (api/bot route).    *)
(*                                                                         *)
(* Prices are fixed-point numbers in hundredths: the integer 101 stands    *)
(* for 1.01.  Averages are exact rationals [n, d] in lowest terms, so a    *)
(* comparison of two averages is the comparison the code makes on the      *)
(* unrounded values, and rounding to two decimals is a separate operator.  *)
(* Date.now() is the variable now, in milliseconds.                        *)
(***************************************************************************)
EXTENDS Integers, Sequences, FiniteSets, TLC

(* null and undefined: the string "null" where the value is a string, 0 where
   it is a timestamp or an id (the code tests those for truthiness), the empty
   tuple where it is a number that may be null, and a record of nulls where it
   is an object *)
NULL == "null"
None == <<>>
Some(x) == <<x>>

(* ---------------- bounds of the model ---------------- *)
NumPairs == 2
MaxCycles == 2
MaxTicks == 2
MaxRequests == 2
MaxLen == 24

(* ---------------- program constants ---------------- *)
FAST_MA_PERIOD == 9
SLOW_MA_PERIOD == 21
pairCooldownSeconds == 30
cooldownSeconds == 60
maxLogs == 100
MAX_TRADES == 1000
DefaultTradeSize == 10
DefaultLeverage == 1
maxLeverage == 125

AllPairs == <<"BTC-USDT", "ETH-USDT", "SOL-USDT", "XRP-USDT", "DOGE-USDT", "ADA-USDT">>
TRADING_PAIRS == SubSeq(AllPairs, 1, NumPairs)
Instruments == {TRADING_PAIRS[i] : i \in 1..Len(TRADING_PAIRS)}

(* ---------------- time ---------------- *)
(* half the pair cooldown: one tick falls inside the window, two reach its end *)
TickMs == (pairCooldownSeconds * 1000) \div 2
StartTime == 1000000
MaxTime == StartTime + MaxTicks * TickMs

(* ---------------- rationals ---------------- *)
RECURSIVE GCD(_, _)
GCD(a, b) == IF b = 0 THEN a ELSE GCD(b, a % b)

Abs(x) == IF x < 0 THEN -x ELSE x

Frac(n, d) ==
  LET g == GCD(Abs(n), Abs(d))
  IN  IF g = 0 THEN [n |-> 0, d |-> 1] ELSE [n |-> n \div g, d |-> d \div g]

RatOf(i) == [n |-> i, d |-> 1]
RatLT(a, b) == a.n * b.d < b.n * a.d
RatLE(a, b) == a.n * b.d <= b.n * a.d
RatGT(a, b) == RatLT(b, a)
RatGE(a, b) == RatLE(b, a)

(* Math.round(x): the nearest integer, halves towards +infinity *)
MathRound(r) == (2 * r.n + r.d) \div (2 * r.d)

Max(a, b) == IF a >= b THEN a ELSE b
Min(a, b) == IF a <= b THEN a ELSE b

RECURSIVE SumRange(_, _, _)
SumRange(s, lo, hi) == IF lo > hi THEN 0 ELSE s[hi] + SumRange(s, lo, hi - 1)

(* ======================= lib/strategy.js ======================= *)

(* SMA.calculate: one average per full window, oldest window first *)
calculateSMA(prices, period) ==
  IF Len(prices) < period THEN <<>>
  ELSE [i \in 1..(Len(prices) - period + 1) |->
          Frac(SumRange(prices, i, i + period - 1), period)]

(* a missing (null or undefined) price array *)
Missing == <<-1>>

WaitInsufficient ==
  [signal |-> "WAIT", reason |-> "Insufficient data for analysis",
   fastMA |-> None, slowMA |-> None]

(* a plausible slip: the comparison made on the values rounded for display *)
DetectCrossoverRounded(prevFastMA, prevSlowMA, currentFastMA, currentSlowMA) ==
  LET fastMA == MathRound(currentFastMA)
      slowMA == MathRound(currentSlowMA)
      signal == IF fastMA > slowMA THEN "BUY"
                ELSE IF fastMA < slowMA THEN "SELL" ELSE "WAIT"
  IN  [signal |-> signal, reason |-> "rounded", fastMA |-> Some(fastMA),
       slowMA |-> Some(slowMA)]

(* lines 61-99 of analyzeMarket: the rounding for display and the if-chain *)
DetectCrossover(prevFastMA, prevSlowMA, currentFastMA, currentSlowMA) ==
  LET fastMA == Some(MathRound(currentFastMA))
      slowMA == Some(MathRound(currentSlowMA))
  IN  IF RatLE(prevFastMA, prevSlowMA) /\ RatGT(currentFastMA, currentSlowMA)
        THEN [signal |-> "BUY", reason |-> "Bullish crossover",
              fastMA |-> fastMA, slowMA |-> slowMA]
      ELSE IF RatGE(prevFastMA, prevSlowMA) /\ RatLT(currentFastMA, currentSlowMA)
        THEN [signal |-> "SELL", reason |-> "Bearish crossover",
              fastMA |-> fastMA, slowMA |-> slowMA]
      ELSE IF RatGT(currentFastMA, currentSlowMA)
        THEN [signal |-> "BUY", reason |-> "Bullish trend",
              fastMA |-> fastMA, slowMA |-> slowMA]
      ELSE IF RatLT(currentFastMA, currentSlowMA)
        THEN [signal |-> "SELL", reason |-> "Bearish trend",
              fastMA |-> fastMA, slowMA |-> slowMA]
      ELSE [signal |-> "WAIT", reason |-> "MAs converging",
            fastMA |-> fastMA, slowMA |-> slowMA]

(* a plausible slip: the guard one point short (SLOW_MA_PERIOD + 1) *)
analyzeMarketShortGuard(closePrices) ==
  IF closePrices = Missing THEN WaitInsufficient
  ELSE IF Len(closePrices) < SLOW_MA_PERIOD + 1 THEN WaitInsufficient
  ELSE
    LET fastMAValues == calculateSMA(closePrices, FAST_MA_PERIOD)
        slowMAValues == calculateSMA(closePrices, SLOW_MA_PERIOD)
    IN  DetectCrossover(fastMAValues[Len(fastMAValues) - 1],
                        slowMAValues[Len(slowMAValues) - 1],
                        fastMAValues[Len(fastMAValues)],
                        slowMAValues[Len(slowMAValues)])

(* a plausible slip: the two periods exchanged *)
analyzeMarketSwappedPeriods(closePrices) ==
  IF closePrices = Missing THEN WaitInsufficient
  ELSE IF Len(closePrices) < SLOW_MA_PERIOD + 2 THEN WaitInsufficient
  ELSE
    LET fastMAValues == calculateSMA(closePrices, SLOW_MA_PERIOD)
        slowMAValues == calculateSMA(closePrices, FAST_MA_PERIOD)
    IN  DetectCrossover(fastMAValues[Len(fastMAValues) - 1],
                        slowMAValues[Len(slowMAValues) - 1],
                        fastMAValues[Len(fastMAValues)],
                        slowMAValues[Len(slowMAValues)])

analyzeMarket(closePrices) ==
  IF closePrices = Missing THEN WaitInsufficient
  ELSE IF Len(closePrices) < SLOW_MA_PERIOD + 2 THEN WaitInsufficient
  ELSE
    LET fastMAValues == calculateSMA(closePrices, FAST_MA_PERIOD)
        slowMAValues == calculateSMA(closePrices, SLOW_MA_PERIOD)
        currentFastMA == fastMAValues[Len(fastMAValues)]
        currentSlowMA == slowMAValues[Len(slowMAValues)]
        prevFastMA == fastMAValues[Len(fastMAValues) - 1]
        prevSlowMA == slowMAValues[Len(slowMAValues) - 1]
    IN  DetectCrossover(prevFastMA, prevSlowMA, currentFastMA, currentSlowMA)

(* a plausible slip: the last position ignored *)
shouldTradeAnyPosition(signal, lastPosition) ==
  IF signal = "WAIT"
    THEN [shouldTrade |-> FALSE, side |-> NULL, reason |-> "No clear signal"]
    ELSE [shouldTrade |-> TRUE,
          side |-> IF signal = "BUY" THEN "buy" ELSE "sell",
          reason |-> "signal confirmed"]

(* a plausible slip: only the short side guarded against a repeat *)
shouldTradeRepeatsBuy(signal, lastPosition) ==
  IF signal = "WAIT"
    THEN [shouldTrade |-> FALSE, side |-> NULL, reason |-> "No clear signal"]
  ELSE IF signal = "SELL" /\ lastPosition = "short"
    THEN [shouldTrade |-> FALSE, side |-> NULL, reason |-> "Already in short position"]
  ELSE [shouldTrade |-> TRUE,
        side |-> IF signal = "BUY" THEN "buy" ELSE "sell",
        reason |-> "signal confirmed"]

shouldTrade(signal, lastPosition) ==
  IF signal = "WAIT"
    THEN [shouldTrade |-> FALSE, side |-> NULL, reason |-> "No clear signal"]
  ELSE IF signal = "BUY" /\ lastPosition = "long"
    THEN [shouldTrade |-> FALSE, side |-> NULL, reason |-> "Already in long position"]
  ELSE IF signal = "SELL" /\ lastPosition = "short"
    THEN [shouldTrade |-> FALSE, side |-> NULL, reason |-> "Already in short position"]
  ELSE [shouldTrade |-> TRUE,
        side |-> IF signal = "BUY" THEN "buy" ELSE "sell",
        reason |-> "signal confirmed"]

(* ======================= state ======================= *)
VARIABLES
  botState,      \* the singleton of lib/state.js
  demoMode,      \* okxClient.js: let demoMode
  env,           \* which credential sets process.env holds: [live, demo]
  now,           \* Date.now(), in ms
  task,          \* the cycle invocations (GET /api/bot?action=cycle) in flight
  tradeHistory,  \* tradeLog.js: tradeHistory, most recent first
  orders,        \* orders submitted to the exchange: <<instId, side, ok, time>>
  ordSeq,        \* exchange-side order id counter
  cycles,        \* number of cycle requests handled so far
  requests,      \* number of control/settings requests handled so far
  fnIn,          \* input of the pure-function specification
  fnOut          \* its output

vars == <<botState, demoMode, env, now, task, tradeHistory, orders, ordSeq,
          cycles, requests, fnIn, fnOut>>

MaxTasks == 2
AllTasks == 1..MaxTasks

(* ======================= lib/okxClient.js ======================= *)

(* a plausible slip: any credential set taken to do, whatever the mode *)
isConfiguredAnyMode == env.demo \/ env.live

isConfigured == IF demoMode THEN env.demo \/ env.live ELSE env.live

isDemoMode == demoMode

(* ======================= lib/state.js ======================= *)

RatAdd(a, b) == Frac(a.n * b.d + b.n * a.d, a.d * b.d)
RatMulI(a, k) == Frac(a.n * k, a.d)
RatDivI(a, k) == Frac(a.n, a.d * k)

(* .trade-config.json as JSON.parse returns it; 0 stands for a missing or
   falsy field *)
NoConfigFile == [exists |-> FALSE, tradeSize |-> 0, leverage |-> 0]

(* fs.existsSync, JSON.parse, then config.tradeSize || 10 and
   config.leverage || 1; the file's own maxLeverage is not read *)
loadConfig(file) ==
  IF file.exists
    THEN [tradeSize |-> IF file.tradeSize = 0 THEN DefaultTradeSize ELSE file.tradeSize,
          leverage |-> IF file.leverage = 0 THEN DefaultLeverage ELSE file.leverage,
          maxLeverage |-> maxLeverage]
    ELSE [tradeSize |-> DefaultTradeSize, leverage |-> DefaultLeverage,
          maxLeverage |-> maxLeverage]

(* pairState[instId] before its lazy creation *)
NoPairState == [lastPosition |-> "undefined", lastTradeTime |-> 0, signal |-> "undefined"]
NoMarketPrice == [price |-> RatOf(0), timestamp |-> 0]
NoTrade == [side |-> NULL, price |-> 0, size |-> 0, timestamp |-> 0]

(* botState as the module leaves it at load, given the config file on disk *)
BootState(file) ==
  [isRunning |-> FALSE,
   currentSignal |-> "WAIT",
   lastPosition |-> NULL,
   pairState |-> [i \in Instruments |-> NoPairState],
   lastTradeTime |-> 0,
   lastTrade |-> NoTrade,
   positions |-> <<>>,
   tradeConfig |-> loadConfig(file),
   logs |-> <<>>,
   marketPrices |-> [i \in Instruments |-> NoMarketPrice]]

(* a first start: no config file yet *)
InitBotState == BootState(NoConfigFile)

(* a plausible slip: the log never trimmed *)
addLogUnbounded(bs, message, type) ==
  [bs EXCEPT !.logs = <<[message |-> message, type |-> type]>> \o bs.logs]

(* a plausible slip: slice(-maxLogs), which trims the head *)
addLogDropNewest(bs, message, type) ==
  LET entry == [message |-> message, type |-> type]
      unshifted == <<entry>> \o bs.logs
  IN  [bs EXCEPT !.logs = IF Len(unshifted) > maxLogs
                            THEN SubSeq(unshifted, 2, Len(unshifted))
                            ELSE unshifted]

(* the entry's timestamp is not modelled: nothing reads it *)
addLog(bs, message, type) ==
  LET entry == [message |-> message, type |-> type]
      unshifted == <<entry>> \o bs.logs
  IN  [bs EXCEPT !.logs = IF Len(unshifted) > maxLogs
                            THEN SubSeq(unshifted, 1, maxLogs)
                            ELSE unshifted]

setSignal(bs, signal) ==
  LET logged == IF bs.currentSignal # signal
                  THEN addLog(bs, <<"Signal changed", bs.currentSignal, signal>>, "signal")
                  ELSE bs
  IN  [logged EXCEPT !.currentSignal = signal]

recordTradeState(bs, side, price, size) ==
  LET set == [bs EXCEPT !.lastTrade = [side |-> side, price |-> price,
                                       size |-> size, timestamp |-> now],
                        !.lastTradeTime = now,
                        !.lastPosition = IF side = "buy" THEN "long" ELSE "short"]
  IN  addLog(set, <<"Trade executed", side, size, price>>, "trade")

getPairState(bs, instId) ==
  IF bs.pairState[instId] = NoPairState
    THEN [bs EXCEPT !.pairState[instId] =
            [lastPosition |-> NULL, lastTradeTime |-> 0, signal |-> "WAIT"]]
    ELSE bs

(* a plausible slip: one trade time for all pairs, as the legacy global
   cooldown had it *)
updatePairStateAllPairs(bs, instId, side) ==
  LET old == IF bs.pairState[instId] = NoPairState
               THEN [lastPosition |-> "undefined", lastTradeTime |-> 0,
                     signal |-> "undefined"]
               ELSE bs.pairState[instId]
  IN  [bs EXCEPT !.pairState =
         [i \in Instruments |->
            IF i = instId
              THEN [old EXCEPT !.lastPosition = IF side = "buy" THEN "long" ELSE "short",
                               !.lastTradeTime = now]
              ELSE [bs.pairState[i] EXCEPT !.lastTradeTime = now]]]

(* a plausible slip: the trade stamped with the time of its market data *)
updatePairStateAtMarketTime(bs, instId, side) ==
  LET old == IF bs.pairState[instId] = NoPairState
               THEN [lastPosition |-> "undefined", lastTradeTime |-> 0,
                     signal |-> "undefined"]
               ELSE bs.pairState[instId]
  IN  [bs EXCEPT !.pairState[instId] =
         [old EXCEPT !.lastPosition = IF side = "buy" THEN "long" ELSE "short",
                     !.lastTradeTime = bs.marketPrices[instId].timestamp]]

(* a plausible slip: the trade time stamped, the direction left as it was *)
updatePairStateKeepPosition(bs, instId, side) ==
  LET old == IF bs.pairState[instId] = NoPairState
               THEN [lastPosition |-> "undefined", lastTradeTime |-> 0,
                     signal |-> "undefined"]
               ELSE bs.pairState[instId]
  IN  [bs EXCEPT !.pairState[instId] = [old EXCEPT !.lastTradeTime = now]]

updatePairState(bs, instId, side) ==
  LET old == IF bs.pairState[instId] = NoPairState
               THEN [lastPosition |-> "undefined", lastTradeTime |-> 0,
                     signal |-> "undefined"]
               ELSE bs.pairState[instId]
  IN  [bs EXCEPT !.pairState[instId] =
         [old EXCEPT !.lastPosition = IF side = "buy" THEN "long" ELSE "short",
                     !.lastTradeTime = now]]

setPairSignal(bs, instId, signal) ==
  LET old == IF bs.pairState[instId] = NoPairState
               THEN [lastPosition |-> NULL, lastTradeTime |-> 0, signal |-> NULL]
               ELSE bs.pairState[instId]
  IN  [bs EXCEPT !.pairState[instId] = [old EXCEPT !.signal = signal]]

(* a plausible slip: the elapsed milliseconds compared with the seconds *)
isPairInCooldownMs(bs, instId) ==
  LET pairState == bs.pairState[instId]
  IN  IF pairState = NoPairState THEN FALSE
      ELSE IF pairState.lastTradeTime = 0 THEN FALSE
      ELSE now - pairState.lastTradeTime < pairCooldownSeconds

(* elapsed seconds are (now - lastTradeTime) / 1000, compared unrounded *)
isPairInCooldown(bs, instId) ==
  LET pairState == bs.pairState[instId]
  IN  IF pairState = NoPairState THEN FALSE
      ELSE IF pairState.lastTradeTime = 0 THEN FALSE
      ELSE now - pairState.lastTradeTime < pairCooldownSeconds * 1000

getPairCooldownRemaining(bs, instId) ==
  LET pairState == bs.pairState[instId]
  IN  IF pairState = NoPairState THEN 0
      ELSE IF pairState.lastTradeTime = 0 THEN 0
      ELSE Max(0, MathRound(Frac(pairCooldownSeconds * 1000
                                   - (now - pairState.lastTradeTime), 1000)))

(* a plausible slip: the price written to every open position *)
updateMarketPriceAllPositions(bs, instId, price) ==
  [bs EXCEPT !.marketPrices[instId] = [price |-> RatOf(price), timestamp |-> now],
             !.positions = [k \in 1..Len(bs.positions) |->
                [bs.positions[k] EXCEPT !.currentPrice = RatOf(price)]]]

updateMarketPrice(bs, instId, price) ==
  [bs EXCEPT !.marketPrices[instId] = [price |-> RatOf(price), timestamp |-> now],
             !.positions = [k \in 1..Len(bs.positions) |->
                IF bs.positions[k].instId = instId
                  THEN [bs.positions[k] EXCEPT !.currentPrice = RatOf(price)]
                  ELSE bs.positions[k]]]

(* Array.findIndex over the outcomes of the test, element by element: the
   first index whose test holds, 0 for -1 *)
FindIndex(tests) ==
  IF \E k \in 1..Len(tests) : tests[k]
    THEN CHOOSE k \in 1..Len(tests) :
           tests[k] /\ \A j \in 1..(k - 1) : ~tests[j]
    ELSE 0

(* Array.splice(index, 1) *)
Splice(seq, index) ==
  [k \in 1..(Len(seq) - 1) |-> IF k < index THEN seq[k] ELSE seq[k + 1]]

(* a plausible slip: the entry prices averaged without their sizes *)
addPositionUnweighted(bs, position) ==
  LET entryPrice == RatOf(position.price)
      newPosition ==
        [id |-> position.orderId, instId |-> position.instId,
         side |-> position.side, size |-> position.size,
         leverage |-> position.leverage,
         entryPrice |-> entryPrice, currentPrice |-> entryPrice,
         timestamp |-> now, orderId |-> position.orderId, mode |-> position.mode]
      IsOpposite(p) == p.instId = position.instId /\ p.side # position.side
      IsSame(p) == p.instId = position.instId /\ p.side = position.side
      oppositeIndex == FindIndex([i \in 1..Len(bs.positions) |-> IsOpposite(bs.positions[i])])
      closed ==
        IF oppositeIndex # 0
          THEN addLog([bs EXCEPT !.positions = Splice(bs.positions, oppositeIndex)],
                      <<"Position closed", bs.positions[oppositeIndex].side,
                        bs.positions[oppositeIndex].instId>>, "trade")
          ELSE bs
      sameIndex == FindIndex([i \in 1..Len(closed.positions) |-> IsSame(closed.positions[i])])
      existing == closed.positions[sameIndex]
      totalSize == existing.size + position.size
      avgPrice == RatDivI(RatAdd(existing.entryPrice, entryPrice), 2)
  IN  IF sameIndex # 0
        THEN addLog([closed EXCEPT !.positions[sameIndex] =
                       [existing EXCEPT !.size = totalSize, !.entryPrice = avgPrice]],
                    <<"Position added", position.side, position.instId, avgPrice>>,
                    "trade")
        ELSE addLog([closed EXCEPT !.positions = Append(closed.positions, newPosition)],
                    <<"Position opened", position.side, position.instId,
                      position.size, position.price>>, "trade")

(* a plausible slip: the opposite position left open *)
addPositionNoFlip(bs, position) ==
  LET entryPrice == RatOf(position.price)
      newPosition ==
        [id |-> position.orderId, instId |-> position.instId,
         side |-> position.side, size |-> position.size,
         leverage |-> position.leverage,
         entryPrice |-> entryPrice, currentPrice |-> entryPrice,
         timestamp |-> now, orderId |-> position.orderId, mode |-> position.mode]
      IsSame(p) == p.instId = position.instId /\ p.side = position.side
      sameIndex == FindIndex([i \in 1..Len(bs.positions) |-> IsSame(bs.positions[i])])
      existing == bs.positions[sameIndex]
      totalSize == existing.size + position.size
      avgPrice == RatDivI(RatAdd(RatMulI(existing.entryPrice, existing.size),
                                 RatMulI(entryPrice, position.size)), totalSize)
  IN  IF sameIndex # 0
        THEN addLog([bs EXCEPT !.positions[sameIndex] =
                       [existing EXCEPT !.size = totalSize, !.entryPrice = avgPrice]],
                    <<"Position added", position.side, position.instId, avgPrice>>,
                    "trade")
        ELSE addLog([bs EXCEPT !.positions = Append(bs.positions, newPosition)],
                    <<"Position opened", position.side, position.instId,
                      position.size, position.price>>, "trade")

(* a plausible slip: the opposite position taken for the same side and averaged *)
addPositionMergeOpposite(bs, position) ==
  LET entryPrice == RatOf(position.price)
      newPosition ==
        [id |-> position.orderId, instId |-> position.instId,
         side |-> position.side, size |-> position.size,
         leverage |-> position.leverage,
         entryPrice |-> entryPrice, currentPrice |-> entryPrice,
         timestamp |-> now, orderId |-> position.orderId, mode |-> position.mode]
      IsSame(p) == p.instId = position.instId
      sameIndex == FindIndex([i \in 1..Len(bs.positions) |-> IsSame(bs.positions[i])])
      existing == bs.positions[sameIndex]
      totalSize == existing.size + position.size
      avgPrice == RatDivI(RatAdd(RatMulI(existing.entryPrice, existing.size),
                                 RatMulI(entryPrice, position.size)), totalSize)
  IN  IF sameIndex # 0
        THEN addLog([bs EXCEPT !.positions[sameIndex] =
                       [existing EXCEPT !.side = position.side, !.size = totalSize,
                                        !.entryPrice = avgPrice]],
                    <<"Position added", position.side, position.instId, avgPrice>>,
                    "trade")
        ELSE addLog([bs EXCEPT !.positions = Append(bs.positions, newPosition)],
                    <<"Position opened", position.side, position.instId,
                      position.size, position.price>>, "trade")

addPosition(bs, position) ==
  LET entryPrice == RatOf(position.price)
      size == position.size
      leverage == IF position.leverage = 0 THEN 1 ELSE position.leverage
      newPosition ==
        [id |-> position.orderId, instId |-> position.instId,
         side |-> position.side, size |-> size, leverage |-> leverage,
         entryPrice |-> entryPrice, currentPrice |-> entryPrice,
         timestamp |-> now, orderId |-> position.orderId,
         mode |-> IF position.mode = NULL THEN "live" ELSE position.mode]
      IsOpposite(p) == p.instId = position.instId /\ p.side # position.side
      IsSame(p) == p.instId = position.instId /\ p.side = position.side
      oppositeIndex == FindIndex([i \in 1..Len(bs.positions) |-> IsOpposite(bs.positions[i])])
      closed ==
        IF oppositeIndex # 0
          THEN addLog([bs EXCEPT !.positions = Splice(bs.positions, oppositeIndex)],
                      <<"Position closed", bs.positions[oppositeIndex].side,
                        bs.positions[oppositeIndex].instId>>, "trade")
          ELSE bs
      sameIndex == FindIndex([i \in 1..Len(closed.positions) |-> IsSame(closed.positions[i])])
      existing == closed.positions[sameIndex]
      totalSize == existing.size + size
      avgPrice == RatDivI(RatAdd(RatMulI(existing.entryPrice, existing.size),
                                 RatMulI(entryPrice, size)), totalSize)
  IN  IF sameIndex # 0
        THEN addLog([closed EXCEPT !.positions[sameIndex] =
                       [existing EXCEPT !.size = totalSize,
                                        !.entryPrice = avgPrice,
                                        !.leverage = leverage]],
                    <<"Position added", position.side, position.instId, avgPrice>>,
                    "trade")
        ELSE addLog([closed EXCEPT !.positions = Append(closed.positions, newPosition)],
                    <<"Position opened", position.side, position.instId,
                      position.size, position.price>>, "trade")

(* a plausible slip: splice(index) without its count, which removes the
   position and everything after it *)
closePositionFromIndex(bs, positionId) ==
  LET HasId(p) == p.id = positionId
      index == FindIndex([i \in 1..Len(bs.positions) |-> HasId(bs.positions[i])])
  IN  IF index # 0
        THEN addLog([bs EXCEPT !.positions = SubSeq(bs.positions, 1, index - 1)],
                    <<"Position manually closed", bs.positions[index].side,
                      bs.positions[index].instId>>, "trade")
        ELSE bs

closePosition(bs, positionId) ==
  LET HasId(p) == p.id = positionId
      index == FindIndex([i \in 1..Len(bs.positions) |-> HasId(bs.positions[i])])
  IN  IF index # 0
        THEN addLog([bs EXCEPT !.positions = Splice(bs.positions, index)],
                    <<"Position manually closed", bs.positions[index].side,
                      bs.positions[index].instId>>, "trade")
        ELSE bs

(* what closePosition returns: the position removed, or None for null *)
closePositionResult(bs, positionId) ==
  LET HasId(p) == p.id = positionId
      index == FindIndex([i \in 1..Len(bs.positions) |-> HasId(bs.positions[i])])
  IN  IF index # 0 THEN Some(bs.positions[index]) ELSE None

clearPositions(bs) ==
  addLog([bs EXCEPT !.positions = <<>>], <<"All positions cleared">>, "info")

getTradeConfig(bs) == bs.tradeConfig

(* JavaScript values of a request body or a config object: typeof, NaN, and
   the number itself *)
Undefined == [t |-> "undefined", nan |-> FALSE, v |-> 0]
JsNum(n) == [t |-> "number", nan |-> FALSE, v |-> n]
JsNaN == [t |-> "number", nan |-> TRUE, v |-> 0]
JsStr == [t |-> "string", nan |-> FALSE, v |-> 0]

(* a plausible slip: the size taken without the > 0 test *)
setTradeConfigAnySize(bs, config) ==
  LET sized ==
        IF config.tradeSize.t = "number"
          THEN addLog([bs EXCEPT !.tradeConfig.tradeSize = config.tradeSize.v],
                      <<"Trade size updated", config.tradeSize.v>>, "info")
          ELSE bs
      leverage == Min(Max(1, config.leverage.v), sized.tradeConfig.maxLeverage)
  IN  IF config.leverage.t = "number"
        THEN addLog([sized EXCEPT !.tradeConfig.leverage = leverage],
                    <<"Leverage updated", leverage>>, "info")
        ELSE sized

(* config is an object with the fields margin, tradeSize and leverage, each
   possibly undefined; only tradeSize and leverage are read.  NaN > 0 is
   false.  The leverage handed in is a finite number or absent: a JSON body
   carries no NaN.  saveConfig rewrites the file, which is read at load only. *)
setTradeConfig(bs, config) ==
  LET sized ==
        IF config.tradeSize.t = "number" /\ ~config.tradeSize.nan
           /\ config.tradeSize.v > 0
          THEN addLog([bs EXCEPT !.tradeConfig.tradeSize = config.tradeSize.v],
                      <<"Trade size updated", config.tradeSize.v>>, "info")
          ELSE bs
      leverage == Min(Max(1, config.leverage.v), sized.tradeConfig.maxLeverage)
  IN  IF config.leverage.t = "number"
        THEN addLog([sized EXCEPT !.tradeConfig.leverage = leverage],
                    <<"Leverage updated", leverage>>, "info")
        ELSE sized

setBotRunning(bs, isRunning) ==
  addLog([bs EXCEPT !.isRunning = isRunning],
         <<IF isRunning THEN "Bot started" ELSE "Bot stopped">>, "info")

(* ======================= lib/tradeLog.js ======================= *)

logTrade(history, trade) ==
  LET unshifted == <<trade>> \o history
  IN  IF Len(unshifted) > MAX_TRADES
        THEN SubSeq(unshifted, 1, Len(unshifted) - 1)
        ELSE unshifted

(* ======================= inputs from the exchange ======================= *)

(* na points at price a followed by nb points at price b *)
StepSeries(a, na, b, nb) == [i \in 1..(na + nb) |-> IF i <= na THEN a ELSE b]

(* the market: the last traded price as a function of the time of the request,
   rising by 1.00 every tick *)
TickerPrices == {100 * (1 + (now - StartTime) \div TickMs)}
CandleInputs == {StepSeries(100, 10, 200, 13),   \* fast MA above slow MA
                 StepSeries(200, 10, 100, 13),   \* fast MA below slow MA
                 StepSeries(100, 10, 100, 13)}   \* flat
TickerErrors == {"OKX API error"}
CandleErrors == {"fetch failed"}
PrepErrors == {"Failed to get instrument info"}
OrderErrors == {"Order failed"}
CredentialErrors == {"API credentials are not configured"}
(* .env.local with the demo keys only: configured in demo mode, not in live mode *)
DemoKeysOnly == [live |-> FALSE, demo |-> TRUE]

(* ======================= api/bot: executePairTrade ======================= *)

NoAnalysis == [signal |-> NULL, reason |-> NULL, fastMA |-> None, slowMA |-> None]

NoLocals ==
  [ticker |-> 0, analysis |-> NoAnalysis, side |-> NULL, reason |-> NULL,
   mode |-> NULL, tradeSize |-> 0, leverage |-> 0, sentDemo |-> FALSE]

NoReport ==
  [executed |-> FALSE, reason |-> NULL, tradesExecuted |-> 0, totalPairs |-> 0,
   trades |-> <<>>]

IdleTask ==
  [pc |-> "idle", idx |-> 0, results |-> <<>>, tradesExecuted |-> 0,
   loc |-> NoLocals, report |-> NoReport]

Result(instId, executed, reason, side, price, orderId, signal, mode) ==
  [instId |-> instId, executed |-> executed, reason |-> reason, side |-> side,
   price |-> price, orderId |-> orderId, signal |-> signal, mode |-> mode]

(* a plausible slip: the pause between two instruments left out *)
PushResultNoDelay(tk, result) ==
  LET pushed == [tk EXCEPT !.results = Append(tk.results, result),
                           !.tradesExecuted = IF result.executed
                                                THEN tk.tradesExecuted + 1
                                                ELSE tk.tradesExecuted,
                           !.loc = NoLocals]
  IN  IF tk.idx < Len(TRADING_PAIRS)
        THEN [pushed EXCEPT !.idx = tk.idx + 1, !.pc = "ticker"]
        ELSE [pushed EXCEPT !.pc = "delay"]

(* a plausible slip: a rejected order sent again *)
PushResultResendOrder(tk, result) ==
  IF result.reason = <<"error", "Order failed">>
    THEN [tk EXCEPT !.pc = "orderSend"]
    ELSE [tk EXCEPT !.results = Append(tk.results, result),
                    !.tradesExecuted = IF result.executed THEN tk.tradesExecuted + 1
                                       ELSE tk.tradesExecuted,
                    !.loc = NoLocals,
                    !.pc = "delay"]

(* a plausible slip: a failed pair ends the loop, as an uncaught throw would *)
PushResultAbortOnError(tk, result) ==
  [tk EXCEPT !.results = Append(tk.results, result),
             !.tradesExecuted = IF result.executed THEN tk.tradesExecuted + 1
                                ELSE tk.tradesExecuted,
             !.loc = NoLocals,
             !.pc = IF result.reason[1] = "error" THEN "aborted" ELSE "delay"]

(* a plausible slip: every result counted as a trade *)
PushResultCountAll(tk, result) ==
  [tk EXCEPT !.results = Append(tk.results, result),
             !.tradesExecuted = tk.tradesExecuted + 1,
             !.loc = NoLocals,
             !.pc = "delay"]

(* a plausible slip: a failed result never pushed *)
PushResultDropFailed(tk, result) ==
  [tk EXCEPT !.results = IF result.reason[1] = "error" THEN tk.results
                         ELSE Append(tk.results, result),
             !.tradesExecuted = IF result.executed THEN tk.tradesExecuted + 1
                                ELSE tk.tradesExecuted,
             !.loc = NoLocals,
             !.pc = "delay"]

(* the scheduler's loop body after await executePairTrade: results.push(result),
   tradesExecuted++ when it executed, then the 200 ms pause *)
PushResult(tk, result) ==
  [tk EXCEPT !.results = Append(tk.results, result),
             !.tradesExecuted = IF result.executed THEN tk.tradesExecuted + 1
                                ELSE tk.tradesExecuted,
             !.loc = NoLocals,
             !.pc = "delay"]

(* a plausible slip: the catch block without its addLog *)
CatchLogSilent(bs, instId, message) == bs

(* the catch block of executePairTrade *)
(* a plausible slip: the failed instrument's signal put back to WAIT *)
CatchLogResetSignal(bs, instId, message) ==
  setPairSignal(addLog(bs, <<instId, "Error", message>>, "error"), instId, "WAIT")

CatchLog(bs, instId, message) == addLog(bs, <<instId, "Error", message>>, "error")

CatchResult(instId, message) ==
  Result(instId, FALSE, <<"error", message>>, NULL, 0, 0, NULL, NULL)

(* executePairTrade up to its first await: the cooldown check *)
(* a plausible slip: the market data requested before the cooldown is looked at *)
EnterPairFetchFirst(tk, bs, i) ==
  [tk EXCEPT !.idx = i, !.pc = "ticker"]

EnterPair(tk, bs, i) ==
  LET instId == TRADING_PAIRS[i]
      at == [tk EXCEPT !.idx = i]
  IN  IF isPairInCooldown(bs, instId)
        THEN PushResult(at, Result(instId, FALSE,
                          <<"Cooldown", getPairCooldownRemaining(bs, instId)>>,
                          NULL, 0, 0, NULL, NULL))
        ELSE [at EXCEPT !.pc = "ticker"]

CurInst(t) == TRADING_PAIRS[task[t].idx]

(* await getTicker(instId) *)
TickerReturn(t) ==
  /\ task[t].pc = "ticker"
  /\ \/ \E p \in TickerPrices :
          /\ task' = [task EXCEPT ![t].loc.ticker = p, ![t].pc = "candles"]
          /\ botState' = botState
     \/ \E e \in TickerErrors :
          /\ botState' = CatchLog(botState, CurInst(t), e)
          /\ task' = [task EXCEPT ![t] = PushResult(task[t], CatchResult(CurInst(t), e))]
  /\ UNCHANGED <<demoMode, env, now, tradeHistory, orders, ordSeq, cycles,
                 requests, fnIn, fnOut>>

(* a plausible slip: the pair state updated as soon as the trade is decided *)
AnalysedOptimistic(bs, instId, ticker, closePrices) ==
  LET analysis == analyzeMarket(closePrices)
      priced == updateMarketPrice(bs, instId, ticker)
      signalled == setPairSignal(priced, instId, analysis.signal)
      got == getPairState(signalled, instId)
      tradeDecision == shouldTrade(analysis.signal, got.pairState[instId].lastPosition)
  IN  [bs |-> IF tradeDecision.shouldTrade
                THEN updatePairState(got, instId, tradeDecision.side) ELSE got,
       analysis |-> analysis, tradeDecision |-> tradeDecision]

(* lines 63-90 of executePairTrade: analysis, cache update, decision *)
Analysed(bs, instId, ticker, closePrices) ==
  LET analysis == analyzeMarket(closePrices)
      priced == updateMarketPrice(bs, instId, ticker)
      signalled == setPairSignal(priced, instId, analysis.signal)
      got == getPairState(signalled, instId)
      tradeDecision == shouldTrade(analysis.signal, got.pairState[instId].lastPosition)
  IN  [bs |-> got, analysis |-> analysis, tradeDecision |-> tradeDecision]

(* await getCandles(...) and everything up to await placeMarketOrder(...) *)
CandlesReturn(t) ==
  /\ task[t].pc = "candles"
  /\ \/ \E e \in CandleErrors :
          /\ botState' = CatchLog(botState, CurInst(t), e)
          /\ task' = [task EXCEPT ![t] = PushResult(task[t], CatchResult(CurInst(t), e))]
     \/ \E c \in CandleInputs :
          LET instId == CurInst(t)
              a == Analysed(botState, instId, task[t].loc.ticker, c)
              mode == IF isDemoMode THEN "demo" ELSE "live"
              tradeConfig == getTradeConfig(a.bs)
          IN  IF ~a.tradeDecision.shouldTrade
                THEN /\ botState' = a.bs
                     /\ task' = [task EXCEPT ![t] = PushResult(task[t],
                          Result(instId, FALSE, <<"decision", a.tradeDecision.reason>>,
                                 NULL, 0, 0, a.analysis.signal, NULL))]
                ELSE /\ botState' = addLog(a.bs,
                          <<instId, a.tradeDecision.side, task[t].loc.ticker,
                            tradeConfig.tradeSize, tradeConfig.leverage>>, "trade")
                     /\ task' = [task EXCEPT
                          ![t].loc = [@ EXCEPT !.analysis = a.analysis,
                                               !.side = a.tradeDecision.side,
                                               !.reason = a.tradeDecision.reason,
                                               !.mode = mode,
                                               !.tradeSize = tradeConfig.tradeSize,
                                               !.leverage = tradeConfig.leverage],
                          ![t].pc = "order"]
  /\ UNCHANGED <<demoMode, env, now, tradeHistory, orders, ordSeq, cycles,
                 requests, fnIn, fnOut>>

(* placeMarketOrder up to getAuthHeaders('POST', '/api/v5/trade/order'):
   account mode, ticker and instrument info; the order's headers take the
   demo flag as it is now, and getAuthHeaders throws where the mode of the
   moment has no credentials *)
OrderPrepared(t) ==
  /\ task[t].pc = "order"
  /\ \/ /\ isConfigured
        /\ task' = [task EXCEPT ![t].loc.sentDemo = demoMode, ![t].pc = "orderSend"]
        /\ botState' = botState
     \/ \E e \in PrepErrors \cup (IF isConfigured THEN {} ELSE CredentialErrors) :
          /\ botState' = CatchLog(botState, CurInst(t), e)
          /\ task' = [task EXCEPT ![t] = PushResult(task[t], CatchResult(CurInst(t), e))]
  /\ UNCHANGED <<demoMode, env, now, tradeHistory, orders, ordSeq, cycles,
                 requests, fnIn, fnOut>>

(* lines 99-141 of executePairTrade: what follows a successful order *)
Filled(bs, instId, loc, orderId) ==
  LET paired == updatePairState(bs, instId, loc.side)
      recorded == recordTradeState(paired, loc.side, loc.ticker, loc.tradeSize)
      added == addPosition(recorded,
                 [instId |-> instId, side |-> loc.side, size |-> loc.tradeSize,
                  price |-> loc.ticker, orderId |-> orderId, mode |-> loc.mode,
                  leverage |-> loc.leverage])
  IN  addLog(added, <<instId, "Order filled", orderId>>, "trade")

TradeEntry(instId, loc, orderId) ==
  [mode |-> loc.mode, instId |-> instId, side |-> loc.side, price |-> loc.ticker,
   size |-> loc.tradeSize, leverage |-> loc.leverage, signal |-> loc.analysis.signal,
   fastMA |-> loc.analysis.fastMA, slowMA |-> loc.analysis.slowMA,
   orderId |-> orderId, reason |-> loc.reason, action |-> "open"]

(* the POST to /api/v5/trade/order returns *)
OrderReturn(t) ==
  /\ task[t].pc = "orderSend"
  /\ LET instId == CurInst(t)
         loc == task[t].loc
     IN  \/ /\ ordSeq' = ordSeq + 1
            /\ orders' = Append(orders, [instId |-> instId, side |-> loc.side,
                                         ok |-> TRUE, time |-> now,
                                         demo |-> loc.sentDemo])
            /\ botState' = Filled(botState, instId, loc, ordSeq + 1)
            /\ tradeHistory' = logTrade(tradeHistory, TradeEntry(instId, loc, ordSeq + 1))
            /\ task' = [task EXCEPT ![t] = PushResult(task[t],
                 Result(instId, TRUE, <<"executed", loc.reason>>, loc.side,
                        loc.ticker, ordSeq + 1, NULL, loc.mode))]
         \/ \E e \in OrderErrors :
            /\ orders' = Append(orders, [instId |-> instId, side |-> loc.side,
                                         ok |-> FALSE, time |-> now,
                                         demo |-> loc.sentDemo])
            /\ botState' = CatchLog(botState, instId, e)
            /\ task' = [task EXCEPT ![t] = PushResult(task[t], CatchResult(instId, e))]
            /\ UNCHANGED <<ordSeq, tradeHistory>>
  /\ UNCHANGED <<demoMode, env, now, cycles, requests, fnIn, fnOut>>

(* ======================= api/bot: executeTradingCycle ======================= *)

NotConfiguredReport ==
  [executed |-> FALSE, reason |-> "API not configured", tradesExecuted |-> 0,
   totalPairs |-> 0, trades |-> <<>>]

(* GET /api/bot?action=cycle while botState.isRunning: executeTradingCycle up
   to the first await of the first pair *)
CycleStart(t) ==
  /\ task[t].pc = "idle"
  /\ cycles < MaxCycles
  /\ botState.isRunning
  /\ cycles' = cycles + 1
  /\ LET scanned == addLog(botState, <<"Scanning", Len(TRADING_PAIRS)>>, "info")
         fresh == [IdleTask EXCEPT !.pc = "loop"]
     IN  IF ~isConfigured
           THEN /\ botState' = addLog(scanned, <<"API not configured">>, "error")
                /\ task' = [task EXCEPT ![t] = [IdleTask EXCEPT !.report = NotConfiguredReport]]
           ELSE /\ botState' = scanned
                /\ task' = [task EXCEPT ![t] = EnterPair(fresh, scanned, 1)]
  /\ UNCHANGED <<demoMode, env, now, tradeHistory, orders, ordSeq, requests,
                 fnIn, fnOut>>

(* results.find(r => r.instId === 'BTC-USDT') and its signal, NULL if none *)
BtcSignal(results) ==
  LET IsBtc(r) == r.instId = "BTC-USDT"
      k == FindIndex([i \in 1..Len(results) |-> IsBtc(results[i])])
  IN  IF k = 0 THEN NULL ELSE results[k].signal

(* the end of executeTradingCycle, lines 188-203 *)
Completed(bs, tk) ==
  LET logged == addLog(bs, <<"Cycle complete", tk.tradesExecuted, Len(TRADING_PAIRS)>>,
                       "info")
  IN  IF Len(tk.results) > 0 /\ BtcSignal(tk.results) # NULL
        THEN setSignal(logged, BtcSignal(tk.results))
        ELSE logged

CycleReport(tk) ==
  [executed |-> tk.tradesExecuted > 0, reason |-> NULL,
   tradesExecuted |-> tk.tradesExecuted, totalPairs |-> Len(TRADING_PAIRS),
   trades |-> tk.results]

(* the 200 ms pause ends: next pair, or the end of the cycle *)
DelayDone(t) ==
  /\ task[t].pc = "delay"
  /\ IF task[t].idx < Len(TRADING_PAIRS)
       THEN /\ task' = [task EXCEPT ![t] = EnterPair(task[t], botState, task[t].idx + 1)]
            /\ botState' = botState
       ELSE /\ botState' = Completed(botState, task[t])
            /\ task' = [task EXCEPT ![t] = [IdleTask EXCEPT !.report = CycleReport(task[t])]]
  /\ UNCHANGED <<demoMode, env, now, tradeHistory, orders, ordSeq, cycles,
                 requests, fnIn, fnOut>>

(* ======================= api/bot: POST, api/settings: POST ======================= *)

(* the dashboard sends start only while it shows the bot stopped, and stop only
   while it shows it running (app/page.js) *)
StartBot ==
  /\ requests < MaxRequests
  /\ ~botState.isRunning
  /\ isConfigured
  /\ requests' = requests + 1
  /\ botState' = addLog(setBotRunning(botState, TRUE), <<"Bot started - will execute">>, "info")
  /\ UNCHANGED <<demoMode, env, now, task, tradeHistory, orders, ordSeq, cycles,
                 fnIn, fnOut>>

StopBot ==
  /\ requests < MaxRequests
  /\ botState.isRunning
  /\ requests' = requests + 1
  /\ botState' = addLog(setBotRunning(botState, FALSE), <<"Bot stopped - no more trades">>, "info")
  /\ UNCHANGED <<demoMode, env, now, task, tradeHistory, orders, ordSeq, cycles,
                 fnIn, fnOut>>

SetDemoMode ==
  /\ requests < MaxRequests
  /\ requests' = requests + 1
  /\ \E enabled \in BOOLEAN :
       /\ demoMode' = enabled
       /\ botState' = addLog(botState, <<"Demo mode", enabled>>, "info")
  /\ UNCHANGED <<env, now, task, tradeHistory, orders, ordSeq, cycles, fnIn, fnOut>>

(* The clock advances where a later step can tell: while an order is with the
   exchange (between the data fetch and the order's return) and between two
   cycles.  Elsewhere a tick shifts every later timestamp alike. *)
Tick ==
  /\ now < MaxTime
  /\ \/ \E t \in AllTasks : task[t].pc = "orderSend"
     \/ /\ \A t \in AllTasks : task[t].pc = "idle"
        /\ cycles > 0
        /\ cycles < MaxCycles
  /\ now' = now + TickMs
  /\ UNCHANGED <<botState, demoMode, env, task, tradeHistory, orders, ordSeq,
                 cycles, requests, fnIn, fnOut>>

(* ======================= specification ======================= *)

NoInput == [op |-> NULL, prices |-> <<>>, signal |-> NULL, lastPosition |-> NULL]

Init ==
  /\ botState = InitBotState
  /\ demoMode = FALSE
  /\ env = [live |-> TRUE, demo |-> TRUE]
  /\ now = StartTime
  /\ task = [t \in AllTasks |-> IdleTask]
  /\ tradeHistory = <<>>
  /\ orders = <<>>
  /\ ordSeq = 0
  /\ cycles = 0
  /\ requests = 0
  /\ fnIn = NoInput
  /\ fnOut = None

(* one cycle at a time, the bot started once, the clock running *)
Next ==
  \/ CycleStart(1)
  \/ TickerReturn(1)
  \/ CandlesReturn(1)
  \/ OrderPrepared(1)
  \/ OrderReturn(1)
  \/ DelayDone(1)
  \/ StartBot
  \/ Tick

Spec == Init /\ [][Next]_vars

(* ======================= the strategy as pure functions ======================= *)

PriceLevels == {100, 101, 102}

(* n1 points at a, then n2 points at b, then points at c, len points in all *)
Seg3(a, n1, b, n2, c, len) ==
  [i \in 1..len |-> IF i <= n1 THEN a ELSE IF i <= n1 + n2 THEN b ELSE c]

PriceInputs ==
  {Missing} \cup
  {Seg3(a, n1, b, n2, c, len) :
     a \in PriceLevels, b \in PriceLevels, c \in PriceLevels,
     n1 \in 0..MaxLen, n2 \in 0..MaxLen, len \in 0..MaxLen}

Signals == {"BUY", "SELL", "WAIT"}
LastPositions == {"long", "short", NULL}

StrategyInputs ==
  {[op |-> "analyzeMarket", prices |-> p, signal |-> NULL, lastPosition |-> NULL] :
     p \in PriceInputs}
  \cup
  {[op |-> "shouldTrade", prices |-> <<>>, signal |-> sg, lastPosition |-> lp] :
     sg \in Signals, lp \in LastPositions}

InitStrategy ==
  /\ botState = InitBotState
  /\ demoMode = FALSE
  /\ env = [live |-> TRUE, demo |-> TRUE]
  /\ now = StartTime
  /\ task = [t \in AllTasks |-> IdleTask]
  /\ tradeHistory = <<>>
  /\ orders = <<>>
  /\ ordSeq = 0
  /\ cycles = 0
  /\ requests = 0
  /\ fnIn \in StrategyInputs
  /\ fnOut = None

Analyze ==
  /\ fnIn.op = "analyzeMarket"
  /\ fnOut = None
  /\ fnOut' = Some(analyzeMarket(fnIn.prices))
  /\ UNCHANGED <<botState, demoMode, env, now, task, tradeHistory, orders, ordSeq,
                 cycles, requests, fnIn>>

Decide ==
  /\ fnIn.op = "shouldTrade"
  /\ fnOut = None
  /\ fnOut' = Some(shouldTrade(fnIn.signal, fnIn.lastPosition))
  /\ UNCHANGED <<botState, demoMode, env, now, task, tradeHistory, orders, ordSeq,
                 cycles, requests, fnIn>>

NextStrategy == Analyze \/ Decide

SpecStrategy == InitStrategy /\ [][NextStrategy]_vars

(* ----------------------------------------------------------------------- *)
(* C7: shouldTrade refuses exactly (WAIT, any), (BUY, long) and            *)
(* (SELL, short); every other pair of a BUY/SELL signal and a last         *)
(* position trades, on side buy for BUY and sell for SELL.                 *)
(* ----------------------------------------------------------------------- *)
C7_ShouldTradeTable ==
  (fnIn.op = "shouldTrade" /\ fnOut # None) =>
    LET d == fnOut[1]
        refused == \/ fnIn.signal = "WAIT"
                   \/ (fnIn.signal = "BUY" /\ fnIn.lastPosition = "long")
                   \/ (fnIn.signal = "SELL" /\ fnIn.lastPosition = "short")
    IN  /\ d.shouldTrade = ~refused
        /\ d.shouldTrade => d.side = (IF fnIn.signal = "BUY" THEN "buy" ELSE "sell")

C7_Witness ==
  /\ fnIn.op = "shouldTrade" /\ fnIn.signal = "BUY" /\ fnIn.lastPosition = "short"
  /\ fnOut # None
  /\ fnOut[1].shouldTrade /\ fnOut[1].side = "buy"

(* the sum of the last k prices *)
LastSum(p, k) == SumRange(p, Len(p) - k + 1, Len(p))

C9_InsufficientData ==
  (/\ fnIn.op = "analyzeMarket" /\ fnOut # None
   /\ (fnIn.prices = Missing \/ Len(fnIn.prices) < SLOW_MA_PERIOD + 2)) =>
    /\ fnOut[1].signal = "WAIT"
    /\ fnOut[1].reason \notin {"", NULL}
    /\ fnOut[1].fastMA = None
    /\ fnOut[1].slowMA = None

C9_Witness ==
  /\ fnIn.op = "analyzeMarket" /\ fnOut # None
  /\ fnIn.prices # Missing /\ Len(fnIn.prices) = SLOW_MA_PERIOD + 1
  /\ fnOut[1].signal = "WAIT"

(* ======================= settings and control requests ======================= *)

InitSettings ==
  /\ botState = InitBotState
  /\ demoMode = TRUE
  /\ env = DemoKeysOnly
  /\ now = StartTime
  /\ task = [t \in AllTasks |-> IdleTask]
  /\ tradeHistory = <<>>
  /\ orders = <<>>
  /\ ordSeq = 0
  /\ cycles = 0
  /\ requests = 0
  /\ fnIn = NoInput
  /\ fnOut = None

(* one cycle at a time, with start, stop and demo-mode requests arriving at
   any await; the clock stands still *)
NextSettings ==
  \/ CycleStart(1)
  \/ TickerReturn(1)
  \/ CandlesReturn(1)
  \/ OrderPrepared(1)
  \/ OrderReturn(1)
  \/ DelayDone(1)
  \/ StartBot
  \/ StopBot
  \/ SetDemoMode

SpecSettings == InitSettings /\ [][NextSettings]_vars

(* ======================= views used by the properties ======================= *)

(* lastPosition as getPairState would return it *)
LastPos(bs, instId) ==
  IF bs.pairState[instId].lastPosition = "undefined" THEN NULL
  ELSE bs.pairState[instId].lastPosition

LastTime(bs, instId) == bs.pairState[instId].lastTradeTime

(* the positions without their current price *)
PosShape(bs) ==
  [k \in 1..Len(bs.positions) |->
     [id |-> bs.positions[k].id, instId |-> bs.positions[k].instId,
      side |-> bs.positions[k].side, size |-> bs.positions[k].size,
      entryPrice |-> bs.positions[k].entryPrice]]

InPipeline(t) == task[t].pc \in {"ticker", "candles", "order", "orderSend"}

LastResult(tk) == tk.results[Len(tk.results)]

(* an order for instId was filled less than the cooldown window ago *)
RecentFill(instId) ==
  \E k \in 1..Len(orders) :
    /\ orders[k].instId = instId
    /\ orders[k].ok
    /\ now - orders[k].time < 30 * 1000

(* this step starts a pipeline invocation of task t *)
StartsPair(t) == task'[t].idx # task[t].idx /\ task'[t].idx # 0

(* ----------------------------------------------------------------------- *)
(* C1: a pipeline invocation for X that starts less than 30 s after an     *)
(* order for X was filled ends at once with executed = false and a         *)
(* cooldown reason, and submits no order.                                  *)
(* ----------------------------------------------------------------------- *)
C1_CooldownBlocks ==
  [][\A t \in AllTasks :
       (StartsPair(t) /\ RecentFill(TRADING_PAIRS[task'[t].idx])) =>
         /\ task'[t].pc = "delay"
         /\ Len(task'[t].results) = task'[t].idx
         /\ LastResult(task'[t]).instId = TRADING_PAIRS[task'[t].idx]
         /\ ~LastResult(task'[t]).executed
         /\ LastResult(task'[t]).reason[1] = "Cooldown"
         /\ orders' = orders]_vars

C1_Witness ==
  \E t \in AllTasks : \E k \in 1..Len(task[t].results) :
    /\ task[t].results[k].reason[1] = "Cooldown"
    /\ RecentFill(task[t].results[k].instId)
    /\ now > StartTime

(* ----------------------------------------------------------------------- *)
(* C2: a pipeline step in which the exchange fills no order leaves X's     *)
(* lastPosition and lastTradeTime as they were and adds, removes, merges   *)
(* or flips no position; the step in which the order submission fails      *)
(* ends the invocation with executed = false.  A pipeline whose order      *)
(* fails is made of such steps only.                                       *)
(* ----------------------------------------------------------------------- *)
C2_FailedOrderNoMutation ==
  [][\A t \in AllTasks :
       (InPipeline(t) /\ task'[t] # task[t] /\ ordSeq' = ordSeq) =>
         /\ LastPos(botState', CurInst(t)) = LastPos(botState, CurInst(t))
         /\ LastTime(botState', CurInst(t)) = LastTime(botState, CurInst(t))
         /\ PosShape(botState') = PosShape(botState)
         /\ (task'[t].pc # "orderSend" /\ task[t].pc \in {"order", "orderSend"}) =>
              /\ task'[t].pc = "delay"
              /\ LastResult(task'[t]).instId = CurInst(t)
              /\ ~LastResult(task'[t]).executed]_vars

(* a rejected order for an instrument that holds a position and a last trade *)
C2_Witness ==
  \E t \in AllTasks : \E k \in 1..Len(orders) :
    /\ task[t].pc = "delay"
    /\ ~orders[k].ok
    /\ k = Len(orders)
    /\ LastResult(task[t]).instId = orders[k].instId
    /\ LastResult(task[t]).reason = <<"error", "Order failed">>
    /\ LastTime(botState, orders[k].instId) # 0
    /\ \E j \in 1..Len(botState.positions) :
         botState.positions[j].instId = orders[k].instId

C4_OneResultPerInstrument ==
  \A t \in AllTasks :
    /\ InPipeline(t) => Len(task[t].results) = task[t].idx - 1
    /\ task[t].pc = "delay" => Len(task[t].results) = task[t].idx
    /\ \A k \in 1..Len(task[t].results) : task[t].results[k].instId = TRADING_PAIRS[k]
    /\ task[t].report.totalPairs > 0 =>
         /\ Len(task[t].report.trades) = Len(TRADING_PAIRS)
         /\ \A k \in 1..Len(TRADING_PAIRS) :
              task[t].report.trades[k].instId = TRADING_PAIRS[k]

(* a report whose first instrument failed and whose last one traded *)
C4_Witness ==
  \E t \in AllTasks :
    /\ task[t].report.totalPairs > 0
    /\ task[t].report.trades[1].reason[1] = "error"
    /\ task[t].report.trades[Len(TRADING_PAIRS)].executed

(* the credentials of the current mode are missing, read off the environment *)
CredentialsAbsent ==
  \/ demoMode /\ ~env.demo /\ ~env.live
  \/ ~demoMode /\ ~env.live

(* ----------------------------------------------------------------------- *)
(* C5: a cycle request handled without credentials reports executed =      *)
(* false, reason "API not configured" and no results, starts no pipeline,  *)
(* and changes nothing but the activity log.                               *)
(* ----------------------------------------------------------------------- *)
C5_NotConfiguredNoOp ==
  [][(cycles' = cycles + 1 /\ CredentialsAbsent) =>
       /\ \E t \in AllTasks :
            /\ task[t].pc = "idle"
            /\ task' = [task EXCEPT ![t] = [IdleTask EXCEPT !.report = task'[t].report]]
            /\ ~task'[t].report.executed
            /\ task'[t].report.reason = "API not configured"
            /\ task'[t].report.trades = <<>>
       /\ [botState' EXCEPT !.logs = <<>>] = [botState EXCEPT !.logs = <<>>]
       /\ UNCHANGED <<orders, ordSeq, tradeHistory, demoMode>>]_vars

C5_Witness ==
  \E t \in AllTasks :
    /\ task[t].report.reason = "API not configured"
    /\ botState.isRunning
    /\ CredentialsAbsent

AllResults(t) ==
  {task[t].results[k] : k \in 1..Len(task[t].results)}
  \cup {task[t].report.trades[k] : k \in 1..Len(task[t].report.trades)}

(* this step pushes a result of task t *)
PushesResult(t) == Len(task'[t].results) = Len(task[t].results) + 1

(* ----------------------------------------------------------------------- *)
(* C6: every failure in a pipeline ends the invocation with a pushed       *)
(* result (the scheduler goes on to its pause): a result pushed for an     *)
(* error has executed = false and the error's message as its reason, and   *)
(* the same step puts an error-typed entry for that instrument and message *)
(* at the head of the log; a rejected order is such an error.              *)
(* ----------------------------------------------------------------------- *)
C6_ErrorsBecomeResults ==
  [][\A t \in AllTasks :
       /\ (PushesResult(t) /\ LastResult(task'[t]).reason[1] = "error") =>
            /\ task'[t].pc = "delay"
            /\ LastResult(task'[t]).instId = CurInst(t)
            /\ ~LastResult(task'[t]).executed
            /\ LastResult(task'[t]).reason[2]
                 \in TickerErrors \cup CandleErrors \cup PrepErrors \cup OrderErrors
            /\ botState'.logs[1] =
                 [message |-> <<CurInst(t), "Error", LastResult(task'[t]).reason[2]>>,
                  type |-> "error"]
       /\ (InPipeline(t) /\ task'[t] # task[t] /\ ~PushesResult(t)) =>
            /\ task'[t].pc \in {"candles", "order", "orderSend"}
            /\ task'[t].pc # task[t].pc
       /\ (task[t].pc = "orderSend" /\ Len(orders') = Len(orders) + 1
           /\ ~orders'[Len(orders')].ok) =>
            /\ PushesResult(t)
            /\ LastResult(task'[t]).reason[1] = "error"]_vars

(* a cycle report holding a ticker failure and a rejected order *)
C6_Witness ==
  \E t \in AllTasks : \E r1, r2 \in AllResults(t) :
    /\ task[t].report.totalPairs > 0
    /\ r1.reason = <<"error", "OKX API error">>
    /\ r2.reason = <<"error", "Order failed">>

(* ----------------------------------------------------------------------- *)
(* C10: a fill for X on the side opposite to X's open position leaves      *)
(* exactly one position for X: the prior one is gone, the remaining one    *)
(* has the new side, the new fill's size and its price as entry price.     *)
(* ----------------------------------------------------------------------- *)
C10_FlipReplaces ==
  [][\A t \in AllTasks :
       (/\ task[t].pc = "orderSend" /\ ordSeq' = ordSeq + 1
        /\ \E k \in 1..Len(botState.positions) :
             /\ botState.positions[k].instId = CurInst(t)
             /\ botState.positions[k].side # task[t].loc.side) =>
         LET mine == {k \in 1..Len(botState'.positions) :
                        botState'.positions[k].instId = CurInst(t)}
         IN  /\ Cardinality(mine) = 1
             /\ \A k \in mine :
                  /\ botState'.positions[k].side = task[t].loc.side
                  /\ botState'.positions[k].size = task[t].loc.tradeSize
                  /\ botState'.positions[k].entryPrice = RatOf(task[t].loc.ticker)
                  /\ botState'.positions[k].id = ordSeq + 1
             /\ Len(botState'.positions) = Len(botState.positions)]_vars

(* a short at 3.00 that replaced a long bought at 1.00 *)
C10_Witness ==
  /\ \E k \in 1..Len(botState.logs) : botState.logs[k].message[1] = "Position closed"
  /\ \E k \in 1..Len(botState.positions) :
       /\ botState.positions[k].side = "sell"
       /\ botState.positions[k].entryPrice = RatOf(300)
       /\ botState.positions[k].id > 1

(* ======================= the position store, called directly ======================= *)

MaxFills == 3
FillSizes == {10, 20}
FillPrices == {10000, 20000}          \* 100.00 and 200.00

(* the fills addPosition can be handed: any pair, side, size and price *)
FillInputs ==
  {[instId |-> i, side |-> sd, size |-> sz, price |-> p, orderId |-> 0,
    mode |-> "demo", leverage |-> 1] :
     i \in Instruments, sd \in {"buy", "sell"}, sz \in FillSizes, p \in FillPrices}

(* addPosition({instId, side, size, price, orderId, mode, leverage}) *)
AddPositionCall ==
  /\ requests < MaxFills
  /\ requests' = requests + 1
  /\ \E f \in FillInputs :
       LET position == [f EXCEPT !.orderId = requests + 1]
       IN  /\ fnIn' = [op |-> "addPosition", position |-> position]
           /\ botState' = addPosition(botState, position)
  /\ UNCHANGED <<demoMode, env, now, task, tradeHistory, orders, ordSeq, cycles, fnOut>>

NextPositions == AddPositionCall

SpecPositions == Init /\ [][NextPositions]_vars

(* the positions of bs held for instId *)
PositionsOf(bs, instId) ==
  {k \in 1..Len(bs.positions) : bs.positions[k].instId = instId}

(* ----------------------------------------------------------------------- *)
(* C11: a fill of size s2 at price p2 on the side of the instrument's open *)
(* position (size s1, entry price p1) leaves one position for the          *)
(* instrument, of size s1 + s2 and entry price (p1*s1 + p2*s2) / (s1+s2).  *)
(* ----------------------------------------------------------------------- *)
C11_MergeWeightedAverage ==
  [][(requests' = requests + 1 /\ fnIn'.op = "addPosition") =>
       \A k \in PositionsOf(botState, fnIn'.position.instId) :
         botState.positions[k].side = fnIn'.position.side =>
           LET s1 == botState.positions[k].size
               p1 == botState.positions[k].entryPrice
               s2 == fnIn'.position.size
               p2 == fnIn'.position.price
               mine == PositionsOf(botState', fnIn'.position.instId)
           IN  /\ mine = {k}
               /\ Len(botState'.positions) = Len(botState.positions)
               /\ botState'.positions[k].side = fnIn'.position.side
               /\ botState'.positions[k].size = s1 + s2
               /\ botState'.positions[k].entryPrice =
                    Frac(p1.n * s1 + p2 * s2 * p1.d, p1.d * (s1 + s2))]_vars

(* 10 @ 100.00 followed by 10 @ 200.00: one position of 20 @ 150.00 *)
C11_Witness ==
  /\ requests = 2
  /\ Len(botState.positions) = 1
  /\ botState.positions[1].size = 20
  /\ botState.positions[1].entryPrice = RatOf(15000)
  /\ botState.logs[1].message[1] = "Position added"
  /\ fnIn.position.price = 20000

(* ======================= trade configuration ======================= *)

MaxConfigCalls == 2

(* the file on disk at start: none, one saved by setTradeConfig, one edited
   by hand or left by another version, one with falsy fields *)
ConfigFiles ==
  {NoConfigFile,
   [exists |-> TRUE, tradeSize |-> 25, leverage |-> 5],
   [exists |-> TRUE, tradeSize |-> 10, leverage |-> 200],
   [exists |-> TRUE, tradeSize |-> 0, leverage |-> 0]}

SizeValues == {Undefined, JsNaN, JsStr, JsNum(0), JsNum(-5), JsNum(25)}
LeverageValues == {Undefined, JsNum(0), JsNum(5), JsNum(125), JsNum(126)}

(* the objects setTradeConfig can be called with *)
ConfigInputs ==
  {[margin |-> Undefined, tradeSize |-> sz, leverage |-> lv] :
     sz \in SizeValues, lv \in LeverageValues}

(* the JSON bodies of POST /api/settings *)
SettingsBodies ==
  {[demoMode |-> dm, margin |-> mg, tradeSize |-> sz, leverage |-> lv] :
     dm \in {"undefined", "true"},
     mg \in {Undefined, JsStr, JsNum(0), JsNum(25)},
     sz \in {Undefined, JsNum(50)},
     lv \in {Undefined, JsNum(5), JsNum(200)}}

InitConfig ==
  /\ \E file \in ConfigFiles : botState = BootState(file)
  /\ demoMode = FALSE
  /\ env = [live |-> TRUE, demo |-> TRUE]
  /\ now = StartTime
  /\ task = [t \in AllTasks |-> IdleTask]
  /\ tradeHistory = <<>>
  /\ orders = <<>>
  /\ ordSeq = 0
  /\ cycles = 0
  /\ requests = 0
  /\ fnIn = NoInput
  /\ fnOut = None

(* setTradeConfig(config), called directly *)
SetTradeConfigCall ==
  /\ requests < MaxConfigCalls
  /\ requests' = requests + 1
  /\ \E config \in ConfigInputs :
       /\ fnIn' = [op |-> "setTradeConfig", config |-> config]
       /\ botState' = setTradeConfig(botState, config)
  /\ UNCHANGED <<demoMode, env, now, task, tradeHistory, orders, ordSeq, cycles, fnOut>>

(* POST /api/settings: demo mode, then margin ?? tradeSize handed on as
   { margin: marginValue }, then leverage as { leverage: body.leverage } *)
SettingsPost ==
  /\ requests < MaxConfigCalls
  /\ requests' = requests + 1
  /\ \E body \in SettingsBodies :
       LET moded == IF body.demoMode # "undefined"
                      THEN addLog(botState, <<"Demo mode", body.demoMode = "true">>, "info")
                      ELSE botState
           marginValue == IF body.margin.t # "undefined" THEN body.margin
                          ELSE body.tradeSize
           sized == IF marginValue.t = "number"
                      THEN setTradeConfig(moded,
                             [margin |-> marginValue, tradeSize |-> Undefined,
                              leverage |-> Undefined])
                      ELSE moded
           levered == IF body.leverage.t = "number"
                        THEN setTradeConfig(sized,
                               [margin |-> Undefined, tradeSize |-> Undefined,
                                leverage |-> body.leverage])
                        ELSE sized
       IN  /\ fnIn' = [op |-> "settings", body |-> body]
           /\ demoMode' = IF body.demoMode # "undefined" THEN body.demoMode = "true"
                          ELSE demoMode
           /\ botState' = levered
  /\ UNCHANGED <<env, now, task, tradeHistory, orders, ordSeq, cycles, fnOut>>

NextConfig == SetTradeConfigCall \/ SettingsPost

SpecConfig == InitConfig /\ [][NextConfig]_vars

C13_MarginApplied ==
  [][(requests' = requests + 1 /\ fnIn'.op = "settings") =>
       LET body == fnIn'.body
           marginValue == IF body.margin.t # "undefined" THEN body.margin
                          ELSE body.tradeSize
       IN  (marginValue.t = "number" /\ marginValue.v > 0) =>
             botState'.tradeConfig.tradeSize = marginValue.v]_vars

(* ----------------------------------------------------------------------- *)
(* C14: setTradeConfig with a size that is zero, negative or not a number  *)
(* leaves the trade size as it was, and a call without a leverage leaves   *)
(* the leverage as it was.                                                 *)
(* ----------------------------------------------------------------------- *)
C14_BadSizeIgnored ==
  [][(requests' = requests + 1 /\ fnIn'.op = "setTradeConfig") =>
       LET config == fnIn'.config
       IN  /\ (config.tradeSize \in {JsNum(0), JsNum(-5), JsNaN, JsStr}) =>
                botState'.tradeConfig.tradeSize = botState.tradeConfig.tradeSize
           /\ config.leverage = Undefined =>
                botState'.tradeConfig.leverage = botState.tradeConfig.leverage]_vars

(* a size of 25 and a leverage of 5 set by a first call survive a second call
   with a negative size and no leverage *)
C14_Witness ==
  /\ requests = 2
  /\ fnIn.op = "setTradeConfig"
  /\ fnIn.config.tradeSize = JsNum(-5)
  /\ fnIn.config.leverage = Undefined
  /\ botState.tradeConfig.tradeSize = 25
  /\ botState.tradeConfig.leverage = 5
  /\ Len(botState.logs) = 2

(* ======================= the activity log ======================= *)

MaxOverflow == 3

(* the n-th call of addLog: entries are numbered so that each is told from
   every other; the type varies once the log is nearly full *)
LogInputs(n) ==
  {[message |-> <<"entry", n>>, type |-> ty] :
     ty \in IF n < maxLogs - 2 THEN {"info"} ELSE {"info", "error"}}

(* addLog(message, type) *)
AddLogCall ==
  /\ requests < maxLogs + MaxOverflow
  /\ requests' = requests + 1
  /\ \E in \in LogInputs(requests) :
       /\ fnIn' = [op |-> "addLog", message |-> in.message, type |-> in.type]
       /\ botState' = addLog(botState, in.message, in.type)
  /\ UNCHANGED <<demoMode, env, now, task, tradeHistory, orders, ordSeq, cycles, fnOut>>

NextLog == AddLogCall

SpecLog == Init /\ [][NextLog]_vars

C16_NewestFirst ==
  [][(requests' = requests + 1 /\ fnIn'.op = "addLog") =>
       LET kept == Min(Len(botState.logs), maxLogs - 1)
       IN  /\ botState'.logs[1] = [message |-> fnIn'.message, type |-> fnIn'.type]
           /\ Len(botState'.logs) = kept + 1
           /\ \A k \in 1..kept : botState'.logs[k + 1] = botState.logs[k]]_vars

(* after 102 appends the entries 0 and 1 are gone, entry 2 is the oldest and
   entry 101 the head *)
C16_Witness ==
  /\ requests = maxLogs + 2
  /\ botState.logs[1].message = <<"entry", maxLogs + 1>>
  /\ botState.logs[maxLogs].message = <<"entry", 2>>
  /\ botState.logs[maxLogs].type = "info"

(* the reports of cycles that got past the credentials check *)
ConfiguredReport(t) ==
  task[t].report # NoReport /\ task[t].report.reason # "API not configured"

(* ----------------------------------------------------------------------- *)
(* C17: in the report of a configured cycle, tradesExecuted is the number  *)
(* of results with executed = true, executed holds exactly when that       *)
(* number is at least 1, and totalPairs is the length of TRADING_PAIRS.    *)
(* ----------------------------------------------------------------------- *)
C17_ReportCounts ==
  \A t \in AllTasks :
    ConfiguredReport(t) =>
      LET report == task[t].report
      IN  /\ report.tradesExecuted =
               Cardinality({k \in 1..Len(report.trades) : report.trades[k].executed})
          /\ report.executed <=> report.tradesExecuted >= 1
          /\ report.totalPairs = Len(TRADING_PAIRS)

(* a report with one trade executed and one pair not traded *)
C17_Witness ==
  \E t \in AllTasks :
    /\ ConfiguredReport(t)
    /\ task[t].report.tradesExecuted = 1
    /\ task[t].report.executed
    /\ \E k \in 1..Len(task[t].report.trades) : ~task[t].report.trades[k].executed

(* the open positions of instId, in their order *)
PositionsSeq(bs, instId) ==
  LET Held(p) == p.instId = instId
  IN  SelectSeq(bs.positions, Held)

(* ----------------------------------------------------------------------- *)
(* C19: no step of a pipeline invocation for X (its start included)        *)
(* changes the lastPosition, lastTradeTime or signal of another            *)
(* instrument Y, or any open position of Y.                                *)
(* ----------------------------------------------------------------------- *)
C19_OtherPairsUntouched ==
  [][\A t \in AllTasks :
       (task'[t] # task[t] /\ (InPipeline(t) \/ StartsPair(t))) =>
         \A Y \in Instruments :
           Y # (IF InPipeline(t) THEN CurInst(t) ELSE TRADING_PAIRS[task'[t].idx]) =>
             /\ botState'.pairState[Y] = botState.pairState[Y]
             /\ PositionsSeq(botState', Y) = PositionsSeq(botState, Y)]_vars

(* a fill for one instrument after, and later than, a fill for another, whose
   trade time still is that of its own fill *)
C19_Witness ==
  \E i, j \in 1..Len(orders) :
    /\ i < j
    /\ orders[i].ok /\ orders[j].ok
    /\ orders[i].instId # orders[j].instId
    /\ orders[i].time < orders[j].time
    /\ botState.pairState[orders[i].instId].lastTradeTime = orders[i].time
    /\ Len(PositionsSeq(botState, orders[i].instId)) = 1

(* ======================= okxClient: withRetry ======================= *)

maxRetries == 3
baseDelay == 1000
MIN_REQUEST_INTERVAL == 100
MaxConnRequests == 2

RECURSIVE Pow2(_)
Pow2(n) == IF n = 0 THEN 1 ELSE 2 * Pow2(n - 1)

(* an error's message as the parts String.includes can find in it *)
RateLimitError == <<"OKX API error", "Too many requests", "50011">>
ApiError == <<"OKX API error", "Instrument ID doesn't exist", "51001">>
TransportError == <<"fetch failed">>
ConnErrors == {RateLimitError, ApiError, TransportError}

(* a plausible slip: every error response of the exchange taken for a
   rate-limit rejection *)
isRateLimitAnyApiError(error) ==
  \E k \in 1..Len(error) :
    error[k] \in {"OKX API error", "Too many requests", "rate limit", "50011"}

(* error.message includes 'Too many requests', 'rate limit' or '50011' *)
isRateLimit(error) ==
  \E k \in 1..Len(error) : error[k] \in {"Too many requests", "rate limit", "50011"}

(* a plausible slip: the same delay before every retry *)
RetryDecisionFixedDelay(error, attempt) ==
  IF isRateLimit(error) /\ attempt < maxRetries - 1
    THEN [do |-> "retry", delay |-> baseDelay]
    ELSE IF ~isRateLimit(error)
      THEN [do |-> "throw", delay |-> 0]
      ELSE [do |-> "next", delay |-> 0]

(* a plausible slip: every error retried *)
RetryDecisionAnyError(error, attempt) ==
  IF attempt < maxRetries - 1
    THEN [do |-> "retry", delay |-> baseDelay * Pow2(attempt)]
    ELSE [do |-> "next", delay |-> 0]

(* the catch block of withRetry: wait and retry, rethrow, or fall through to
   the end of the loop *)
RetryDecision(error, attempt) ==
  IF isRateLimit(error) /\ attempt < maxRetries - 1
    THEN [do |-> "retry", delay |-> baseDelay * Pow2(attempt)]
    ELSE IF ~isRateLimit(error)
      THEN [do |-> "throw", delay |-> 0]
      ELSE [do |-> "next", delay |-> 0]

ConnOps == {"getTicker", "getCandles"}

(* fnIn holds the request in flight: its loop counter, the calls of fn made,
   their errors, the delays waited and the module's lastRequestTime; fnOut
   holds what the request returned or threw *)
ConnIdle == IF fnIn.op \in ConnOps THEN fnIn.pc = "done" ELSE TRUE

(* getTicker(instId) or getCandles(instId, ...) is called: withRetry starts *)
ConnStart ==
  /\ ConnIdle
  /\ requests < MaxConnRequests
  /\ requests' = requests + 1
  /\ \E op \in ConnOps, instId \in Instruments :
       fnIn' = [op |-> op, instId |-> instId, attempt |-> 0, calls |-> 0,
                errors |-> <<>>, delays |-> <<>>, pc |-> "call",
                lastRequestTime |-> IF fnIn.op \in ConnOps THEN fnIn.lastRequestTime
                                    ELSE 0]
  /\ fnOut' = None
  /\ UNCHANGED <<botState, demoMode, env, now, task, tradeHistory, orders, ordSeq, cycles>>

(* one turn of the loop: waitForRateLimit, then fn() returns or throws *)
ConnAttempt ==
  /\ fnIn.op \in ConnOps
  /\ fnIn.pc = "call"
  /\ LET started == IF now - fnIn.lastRequestTime < MIN_REQUEST_INTERVAL
                      THEN fnIn.lastRequestTime + MIN_REQUEST_INTERVAL
                      ELSE now
         called == [fnIn EXCEPT !.calls = @ + 1, !.lastRequestTime = started]
     IN  /\ now' = started
         /\ \/ /\ fnIn' = [called EXCEPT !.pc = "done"]
               /\ fnOut' = Some([ok |-> TRUE, error |-> <<>>])
            \/ \E error \in ConnErrors :
                 LET d == RetryDecision(error, fnIn.attempt)
                     failed == [called EXCEPT !.errors = Append(@, error)]
                 IN  IF d.do = "retry"
                       THEN /\ fnIn' = [failed EXCEPT !.pc = "backoff",
                                                      !.delays = Append(@, d.delay)]
                            /\ fnOut' = None
                     ELSE IF d.do = "throw" \/ fnIn.attempt + 1 >= maxRetries
                       THEN /\ fnIn' = [failed EXCEPT !.pc = "done"]
                            /\ fnOut' = Some([ok |-> FALSE, error |-> error])
                       ELSE /\ fnIn' = [failed EXCEPT !.attempt = @ + 1]
                            /\ fnOut' = None
  /\ UNCHANGED <<botState, demoMode, env, task, tradeHistory, orders, ordSeq, cycles,
                 requests>>

(* the setTimeout of the backoff fires: attempt++ *)
ConnBackoffDone ==
  /\ fnIn.op \in ConnOps
  /\ fnIn.pc = "backoff"
  /\ now' = now + fnIn.delays[Len(fnIn.delays)]
  /\ fnIn' = [fnIn EXCEPT !.attempt = @ + 1, !.pc = "call"]
  /\ UNCHANGED <<botState, demoMode, env, task, tradeHistory, orders, ordSeq, cycles,
                 requests, fnOut>>

NextRetry == ConnStart \/ ConnAttempt \/ ConnBackoffDone

SpecRetry == Init /\ [][NextRetry]_vars

(* the request has thrown to its caller, the pipeline *)
ConnThrown == fnIn.op \in ConnOps /\ fnIn.pc = "done" /\ ~fnOut[1].ok

(* ----------------------------------------------------------------------- *)
(* C20 as claimed: a transport error reaches the pipeline only after the   *)
(* request was tried the maximum number of times, with growing delays      *)
(* between the tries.                                                      *)
(* ----------------------------------------------------------------------- *)
C20_TransportErrorRetried ==
  (ConnThrown /\ fnOut[1].error = TransportError) =>
    /\ fnIn.calls = maxRetries
    /\ Len(fnIn.delays) = maxRetries - 1
    /\ \A k \in 1..(Len(fnIn.delays) - 1) : fnIn.delays[k + 1] = 2 * fnIn.delays[k]

(* ----------------------------------------------------------------------- *)
(* C20 amended: only rate-limit errors are retried.  A request makes at    *)
(* most 3 calls, waiting 1000 ms and then 2000 ms between them; every call *)
(* before the last one failed with a rate-limit error; a rate-limit error  *)
(* reaches the pipeline only from the third call, and any other error, a   *)
(* transport error included, from the call that met it, with no delay      *)
(* after it.                                                               *)
(* ----------------------------------------------------------------------- *)
C20_RateLimitRetried ==
  fnIn.op \in ConnOps =>
    /\ fnIn.calls <= 3
    /\ \A k \in 1..Len(fnIn.delays) : fnIn.delays[k] = 1000 * Pow2(k - 1)
    /\ \A k \in 1..Len(fnIn.errors) :
         k < fnIn.calls => isRateLimit(fnIn.errors[k])
    /\ ConnThrown =>
         /\ fnOut[1].error = fnIn.errors[fnIn.calls]
         /\ Len(fnIn.delays) = fnIn.calls - 1
         /\ isRateLimit(fnOut[1].error) => fnIn.calls = 3

(* a rate-limit error thrown after three calls, 1 s and 2 s apart *)
C20_Witness ==
  /\ ConnThrown
  /\ fnOut[1].error = RateLimitError
  /\ fnIn.calls = 3
  /\ fnIn.delays = <<1000, 2000>>
  /\ now >= StartTime + 3000

(* the call of fn just made failed with a rate-limit error *)
RateLimitedCall ==
  IF fnIn.op \in ConnOps
    THEN /\ fnIn.pc = "call"
         /\ fnIn'.calls = fnIn.calls + 1
         /\ Len(fnIn'.errors) = Len(fnIn.errors) + 1
         /\ isRateLimit(fnIn'.errors[Len(fnIn'.errors)])
    ELSE FALSE

(* ----------------------------------------------------------------------- *)
(* C21: a request makes at most maxRetries calls.  A rate-limit error on   *)
(* attempt k that is not the last attempt is followed by a wait of         *)
(* baseDelay * 2^k before attempt k + 1; a rate-limit error on the last    *)
(* attempt is thrown to the caller; a request that is over has returned a  *)
(* result or thrown the error of its last call.                            *)
(* ----------------------------------------------------------------------- *)
C21_BoundedBackoff ==
  [][/\ (fnIn'.op \in ConnOps) =>
          /\ fnIn'.calls <= maxRetries
          /\ fnIn'.attempt < maxRetries
          /\ fnIn'.pc = "done" =>
               /\ fnOut' # None
               /\ ~fnOut'[1].ok => fnOut'[1].error = fnIn'.errors[Len(fnIn'.errors)]
     /\ (RateLimitedCall /\ fnIn.attempt < maxRetries - 1) =>
          /\ fnIn'.pc = "backoff"
          /\ fnIn'.attempt = fnIn.attempt
          /\ fnIn'.delays = Append(fnIn.delays, baseDelay * Pow2(fnIn.attempt))
     /\ (RateLimitedCall /\ fnIn.attempt = maxRetries - 1) =>
          /\ fnIn'.pc = "done"
          /\ fnOut' = Some([ok |-> FALSE, error |-> fnIn'.errors[Len(fnIn'.errors)]])
     /\ (IF fnIn.op \in ConnOps THEN fnIn.pc = "backoff" ELSE FALSE) =>
          /\ now' = now + baseDelay * Pow2(fnIn.attempt)
          /\ fnIn'.attempt = fnIn.attempt + 1
          /\ fnIn'.pc = "call"
          /\ fnIn'.calls = fnIn.calls]_vars

(* the third call of a request is about to be made, 1 s and 2 s of waiting
   after two rate-limit errors *)
C21_Witness ==
  /\ fnIn.op \in ConnOps
  /\ fnIn.pc = "call"
  /\ fnIn.attempt = 2
  /\ fnIn.calls = 2
  /\ fnIn.errors = <<RateLimitError, RateLimitError>>
  /\ fnIn.delays = <<baseDelay, 2 * baseDelay>>

(* the call of fn just made failed with an error response of the exchange
   that is not a rate-limit rejection *)
RejectedCall ==
  IF fnIn.op \in ConnOps
    THEN /\ fnIn.pc = "call"
         /\ fnIn'.calls = fnIn.calls + 1
         /\ Len(fnIn'.errors) = Len(fnIn.errors) + 1
         /\ fnIn'.errors[Len(fnIn'.errors)] = ApiError
    ELSE FALSE

(* ----------------------------------------------------------------------- *)
(* C29: an error response of the exchange that is not a rate-limit         *)
(* rejection is thrown to the caller by the call that met it: the request  *)
(* is over in the same step, no delay is added and no further call is      *)
(* made; met on the first call, it is thrown after exactly one call.       *)
(* ----------------------------------------------------------------------- *)
C29_ApiErrorNotRetried ==
  [][/\ RejectedCall =>
          /\ fnIn'.pc = "done"
          /\ fnOut' = Some([ok |-> FALSE, error |-> ApiError])
          /\ fnIn'.delays = fnIn.delays
          /\ fnIn'.attempt = fnIn.attempt
          /\ fnIn.calls = 0 => (fnIn'.calls = 1 /\ fnIn'.delays = <<>>)
     /\ (IF fnIn.op \in ConnOps
           THEN fnIn.pc = "done" /\ fnIn.errors # <<>> /\ fnIn'.instId = fnIn.instId
           ELSE FALSE) =>
          (fnIn'.calls < fnIn.calls \/ fnIn' = fnIn)]_vars

(* an error response thrown after one call and no wait *)
C29_Witness ==
  /\ ConnThrown
  /\ fnOut[1].error = ApiError
  /\ fnIn.calls = 1
  /\ fnIn.delays = <<>>
  /\ fnIn.attempt = 0

(* ======================= what a concurrent request observes ======================= *)

(* the direction recorded for an order side by updatePairState *)
DirectionOf(side) == IF side = "buy" THEN "long" ELSE "short"

(* the sides of the open positions of X, in store order *)
SidesOf(bs, X) ==
  LET held == PositionsSeq(bs, X)
  IN  [k \in 1..Len(held) |-> held[k].side]

(* every open position agrees with its instrument's lastPosition, and that
   instrument's lastTradeTime is set *)
TradesWhole(bs) ==
  \A k \in 1..Len(bs.positions) :
    LET p == bs.positions[k]
        ps == bs.pairState[p.instId]
    IN  /\ ps.lastPosition = DirectionOf(p.side)
        /\ ps.lastTradeTime >= StartTime

(* ----------------------------------------------------------------------- *)
(* C22: every state between two steps of a cycle, which is what another    *)
(* request can observe, shows each trade whole: every open position of X   *)
(* agrees with X's lastPosition and X's lastTradeTime is set.  A step that *)
(* changes X's lastTradeTime, X's direction or the sides of X's positions  *)
(* changes all of them together, to the side of the order that has just    *)
(* been filled at the time of the fill.                                    *)
(* ----------------------------------------------------------------------- *)
C22_TradesObservedWhole ==
  [][/\ TradesWhole(botState')
     /\ \A X \in Instruments :
          LET was == botState.pairState[X]
              is == botState'.pairState[X]
          IN  (\/ is.lastTradeTime # was.lastTradeTime
               \/ (is.lastPosition # was.lastPosition
                     /\ is.lastPosition \in {"long", "short"})
               \/ SidesOf(botState', X) # SidesOf(botState, X)) =>
                /\ Len(orders') = Len(orders) + 1
                /\ orders'[Len(orders')].ok
                /\ orders'[Len(orders')].instId = X
                /\ is.lastTradeTime = now'
                /\ is.lastPosition = DirectionOf(orders'[Len(orders')].side)
                /\ SidesOf(botState', X) = <<orders'[Len(orders')].side>>]_vars

(* the cycle is suspended on the order call for the second instrument while
   the first instrument's trade is in the store *)
C22_Witness ==
  /\ task[1].pc = "orderSend"
  /\ task[1].idx = 2
  /\ SidesOf(botState, TRADING_PAIRS[1]) = <<"buy">>
  /\ botState.pairState[TRADING_PAIRS[1]].lastPosition = "long"
  /\ botState.pairState[TRADING_PAIRS[1]].lastTradeTime >= StartTime
  /\ SidesOf(botState, TRADING_PAIRS[2]) = <<>>

(* ======================= analyzeMarket on step sequences ======================= *)

(* prices in hundredths: 1 is 100 and 2 is 200 *)
StepLevels == {100, 200}
StepLow == 10
StepHigh == 13

(* every sequence of up to ten points at one level followed by up to thirteen
   at another: the rising step, the falling step and all their prefixes *)
StepInputs ==
  {[op |-> "analyzeMarket", prices |-> StepSeries(a, na, b, nb),
    signal |-> NULL, lastPosition |-> NULL] :
     a \in StepLevels, b \in StepLevels, na \in 0..StepLow, nb \in 0..StepHigh}

InitStep ==
  /\ botState = InitBotState
  /\ demoMode = FALSE
  /\ env = [live |-> TRUE, demo |-> TRUE]
  /\ now = StartTime
  /\ task = [t \in AllTasks |-> IdleTask]
  /\ tradeHistory = <<>>
  /\ orders = <<>>
  /\ ordSeq = 0
  /\ cycles = 0
  /\ requests = 0
  /\ fnIn \in StepInputs
  /\ fnOut = None

NextStep == Analyze

SpecStep == InitStep /\ [][NextStep]_vars

(* ten 1s followed by thirteen 2s *)
RisingStep == StepSeries(100, 10, 200, 13)

PositionIds == 1..(MaxFills + 1)
TickerLasts == {20000, 30000}          \* 200.00 and 300.00

(* closePosition(positionId) *)
ClosePositionCall ==
  /\ requests < MaxFills
  /\ requests' = requests + 1
  /\ \E positionId \in PositionIds :
       /\ fnIn' = [op |-> "closePosition", positionId |-> positionId]
       /\ botState' = closePosition(botState, positionId)
       /\ fnOut' = Some(closePositionResult(botState, positionId))
  /\ UNCHANGED <<demoMode, env, now, task, tradeHistory, orders, ordSeq, cycles>>

(* updateMarketPrice(instId, price) *)
UpdateMarketPriceCall ==
  /\ requests < MaxFills
  /\ requests' = requests + 1
  /\ \E instId \in Instruments, price \in TickerLasts :
       /\ fnIn' = [op |-> "updateMarketPrice", instId |-> instId, price |-> price]
       /\ botState' = updateMarketPrice(botState, instId, price)
  /\ UNCHANGED <<demoMode, env, now, task, tradeHistory, orders, ordSeq, cycles, fnOut>>

NextStore == AddPositionCall \/ ClosePositionCall \/ UpdateMarketPriceCall

SpecStore == Init /\ [][NextStore]_vars

(* the indices of the open positions of bs with the given id *)
WithId(bs, positionId) ==
  {k \in 1..Len(bs.positions) : bs.positions[k].id = positionId}

(* ----------------------------------------------------------------------- *)
(* C24: closePosition(id) with an open position of that id removes that    *)
(* position, returns it and leaves the others as they were and in their    *)
(* order; with no such position it returns null and leaves the positions   *)
(* and the activity log unchanged.                                         *)
(* ----------------------------------------------------------------------- *)
C24_CloseRemovesOne ==
  [][(requests' = requests + 1 /\ fnIn'.op = "closePosition") =>
       LET id == fnIn'.positionId
           old == botState.positions
           new == botState'.positions
       IN  IF WithId(botState, id) # {}
             THEN \E k \in WithId(botState, id) :
                    /\ WithId(botState, id) = {k}
                    /\ fnOut' = Some(Some(old[k]))
                    /\ Len(new) = Len(old) - 1
                    /\ \A j \in 1..Len(new) :
                         new[j] = IF j < k THEN old[j] ELSE old[j + 1]
                    /\ WithId(botState', id) = {}
             ELSE /\ fnOut' = Some(None)
                  /\ new = old
                  /\ botState'.logs = botState.logs]_vars

(* the first of two open positions has been closed and returned; the second
   is the one that remains *)
C24_Witness ==
  /\ fnIn.op = "closePosition"
  /\ fnOut # None
  /\ fnOut[1] # None
  /\ fnOut[1][1].id = fnIn.positionId
  /\ Len(botState.positions) = 1
  /\ botState.positions[1].id > fnIn.positionId

(* ----------------------------------------------------------------------- *)
(* C30: updateMarketPrice(X, p) sets currentPrice to p on every open       *)
(* position of X and changes nothing else of the positions: no other field *)
(* of those positions, no position of another instrument, neither their    *)
(* number nor their order.                                                 *)
(* ----------------------------------------------------------------------- *)
C30_RepriceOnlyX ==
  [][(requests' = requests + 1 /\ fnIn'.op = "updateMarketPrice") =>
       LET old == botState.positions
           new == botState'.positions
       IN  /\ Len(new) = Len(old)
           /\ \A k \in 1..Len(old) :
                new[k] = IF old[k].instId = fnIn'.instId
                           THEN [old[k] EXCEPT !.currentPrice = RatOf(fnIn'.price)]
                           ELSE old[k]]_vars

(* two instruments hold positions; the one repriced shows the new price, the
   other still its entry price *)
C30_Witness ==
  /\ fnIn.op = "updateMarketPrice"
  /\ Len(botState.positions) = 2
  /\ \E k, j \in 1..2 :
       /\ botState.positions[k].instId = fnIn.instId
       /\ botState.positions[k].currentPrice = RatOf(fnIn.price)
       /\ botState.positions[k].currentPrice # botState.positions[k].entryPrice
       /\ botState.positions[j].instId # fnIn.instId
       /\ botState.positions[j].currentPrice = botState.positions[j].entryPrice

(* ======================= cooldown and failed fetches ======================= *)

(* the log line executeTradingCycle writes before its loop *)
CycleLogged(bs) ==
  IF cycles' # cycles THEN addLog(bs, <<"Scanning", Len(TRADING_PAIRS)>>, "info") ELSE bs

(* ----------------------------------------------------------------------- *)
(* C25: the step that starts a pipeline invocation for an instrument in    *)
(* cooldown ends it: no ticker, candle or order request is pending or was  *)
(* sent, and cached prices, signals, instrument states, positions and the  *)
(* activity log are as they were (a cycle's first instrument comes after   *)
(* the cycle's own opening log line).                                      *)
(* ----------------------------------------------------------------------- *)
C25_CooldownTouchesNothing ==
  [][\A t \in AllTasks :
       (StartsPair(t) /\ RecentFill(TRADING_PAIRS[task'[t].idx])) =>
         /\ ~(task'[t].pc \in {"ticker", "candles", "order", "orderSend"})
         /\ orders' = orders
         /\ ordSeq' = ordSeq
         /\ botState'.marketPrices = botState.marketPrices
         /\ botState'.pairState = botState.pairState
         /\ botState'.positions = botState.positions
         /\ botState'.logs = CycleLogged(botState).logs
         /\ botState' = CycleLogged(botState)]_vars

(* the second cycle found its first instrument in cooldown, a tick after
   the fill, and moved on *)
C25_Witness ==
  /\ cycles = 2
  /\ task[1].idx = 1
  /\ task[1].pc = "delay"
  /\ LastResult(task[1]).reason[1] = "Cooldown"
  /\ RecentFill(TRADING_PAIRS[1])
  /\ botState.pairState[TRADING_PAIRS[1]].lastTradeTime < now
  /\ Len(botState.positions) >= 1

(* the filled orders for X, as indices of the order record *)
FillsOf(X) == {k \in 1..Len(orders) : orders[k].instId = X /\ orders[k].ok}

(* the latest of them *)
LastFillOf(X) == CHOOSE k \in FillsOf(X) : \A j \in FillsOf(X) : j <= k

(* ----------------------------------------------------------------------- *)
(* C26: once an order for X was filled, X's lastPosition is long if the    *)
(* latest fill was a buy and short if it was a sell, X's lastTradeTime is  *)
(* the time at which that order call returned, and X is in cooldown        *)
(* exactly until 30 s after that time.                                     *)
(* ----------------------------------------------------------------------- *)
C26_StampedAtOrderReturn ==
  \A X \in Instruments :
    FillsOf(X) # {} =>
      LET fill == orders[LastFillOf(X)]
      IN  /\ botState.pairState[X].lastPosition = DirectionOf(fill.side)
          /\ botState.pairState[X].lastTradeTime = fill.time
          /\ isPairInCooldown(botState, X) <=>
               (now - fill.time < pairCooldownSeconds * 1000)

(* a fill that returned a tick after its market data was fetched, stamped
   with the later of the two times *)
C26_Witness ==
  \E X \in Instruments :
    /\ FillsOf(X) # {}
    /\ botState.marketPrices[X].timestamp < orders[LastFillOf(X)].time
    /\ botState.pairState[X].lastTradeTime = orders[LastFillOf(X)].time
    /\ botState.pairState[X].lastPosition = DirectionOf(orders[LastFillOf(X)].side)

(* the order requests sent for X, filled or rejected *)
SentFor(ords, X) == {k \in 1..Len(ords) : ords[k].instId = X}

(* X's invocation in the cycle task t is running has ended *)
PairDone(t, X) ==
  \E j \in 1..Len(TRADING_PAIRS) :
    /\ TRADING_PAIRS[j] = X
    /\ \/ j < task[t].idx
       \/ j = task[t].idx /\ task[t].pc = "delay"

(* ----------------------------------------------------------------------- *)
(* C27: a step sends at most one order request, and the step in which an   *)
(* order request returns, filled or rejected, ends the invocation for its  *)
(* instrument.  Counted over the cycles started, an instrument has at most *)
(* one order request per cycle: none of the current cycle before its       *)
(* invocation has ended, and one at most after.                            *)
(* ----------------------------------------------------------------------- *)
C27_OneOrderPerPairAndCycle ==
  [][/\ Len(orders') <= Len(orders) + 1
     /\ Len(orders') = Len(orders) + 1 =>
          \E t \in AllTasks :
            /\ task[t].pc = "orderSend"
            /\ orders'[Len(orders')].instId = CurInst(t)
            /\ SubSeq(orders', 1, Len(orders)) = orders
            /\ task'[t].pc = "delay"
            /\ Len(task'[t].results) = Len(task[t].results) + 1
            /\ LastResult(task'[t]).instId = CurInst(t)
            /\ LastResult(task'[t]).executed = orders'[Len(orders')].ok
     /\ \A X \in Instruments :
          Cardinality(SentFor(orders', X)) <=
            IF task'[1].pc = "idle" THEN cycles'
            ELSE (cycles' - 1) + (IF PairDone(1, X)' THEN 1 ELSE 0)]_vars

(* the first instrument's order was rejected, and the cycle went on to the
   second instrument with that one request sent *)
C27_Witness ==
  /\ cycles = 1
  /\ task[1].idx = 2
  /\ Len(orders) = 1
  /\ ~orders[1].ok
  /\ orders[1].instId = TRADING_PAIRS[1]
  /\ task[1].results[1].reason = <<"error", "Order failed">>

(* the step of task t ends its invocation with an error result *)
EndsInError(t) ==
  /\ Len(task'[t].results) = Len(task[t].results) + 1
  /\ LastResult(task'[t]).reason[1] = "error"

(* ----------------------------------------------------------------------- *)
(* C28: while an invocation for X waits for its ticker or its candles, a   *)
(* step of it sends no order and leaves the store as it was, but for one   *)
(* error entry at the head of the log when the fetch failed: cached        *)
(* prices, signals, lastPosition, lastTradeTime and positions are those of *)
(* before, so that a ticker that arrived changes nothing when the candle   *)
(* fetch fails after it.                                                   *)
(* ----------------------------------------------------------------------- *)
C28_FailedFetchOnlyLogs ==
  [][\A t \in AllTasks :
       (task'[t] # task[t] /\ task[t].pc \in {"ticker", "candles"}
          /\ (task[t].pc = "ticker" \/ EndsInError(t))) =>
         /\ orders' = orders
         /\ ordSeq' = ordSeq
         /\ tradeHistory' = tradeHistory
         /\ botState'.marketPrices = botState.marketPrices
         /\ botState'.pairState = botState.pairState
         /\ botState'.positions = botState.positions
         /\ [botState' EXCEPT !.logs = botState.logs] = botState
         /\ IF EndsInError(t)
              THEN /\ task'[t].pc = "delay"
                   /\ ~LastResult(task'[t]).executed
                   /\ LastResult(task'[t]).instId = CurInst(t)
                   /\ botState'.logs[1].type = "error"
                   /\ botState'.logs[1].message[1] = CurInst(t)
                   /\ \A k \in 2..Len(botState'.logs) :
                        botState'.logs[k] = botState.logs[k - 1]
              ELSE /\ task[t].pc = "ticker"
                   /\ task'[t].pc = "candles"
                   /\ botState'.logs = botState.logs]_vars

(* the first instrument's ticker arrived and its candle fetch failed: no
   price was cached, no signal set, no order sent *)
C28_Witness ==
  /\ task[1].idx = 1
  /\ task[1].pc = "delay"
  /\ LastResult(task[1]).reason = <<"error", "fetch failed">>
  /\ cycles = 1
  /\ botState.marketPrices[TRADING_PAIRS[1]] = NoMarketPrice
  /\ botState.pairState[TRADING_PAIRS[1]] = NoPairState
  /\ orders = <<>>
  /\ botState.logs[1].type = "error"

(* ======================= the order of the loop ======================= *)

(* ----------------------------------------------------------------------- *)
(* C31: a cycle takes its instruments one after another in list order.     *)
(* The invocation for the first starts with the cycle; the invocation for  *)
(* instrument i + 1 starts in the step in which the 200 ms timer set after *)
(* instrument i fires, and that timer is set only once the result of i has *)
(* been pushed.  While an invocation is in progress the results are those  *)
(* of the instruments before it, so no two are in progress at once.        *)
(* ----------------------------------------------------------------------- *)
C31_OneInstrumentAtATime ==
  [][\A t \in AllTasks :
       /\ StartsPair(t) =>
            IF task[t].pc = "idle"
              THEN task'[t].idx = 1 /\ cycles' = cycles + 1
              ELSE /\ task[t].pc = "delay"
                   /\ task'[t].idx = task[t].idx + 1
                   /\ Len(task[t].results) = task[t].idx
                   /\ LastResult(task[t]).instId = TRADING_PAIRS[task[t].idx]
       /\ task'[t].pc \in {"ticker", "candles", "order", "orderSend"} =>
            /\ Len(task'[t].results) = task'[t].idx - 1
            /\ \A k \in 1..Len(task'[t].results) :
                 task'[t].results[k].instId = TRADING_PAIRS[k]
       /\ task'[t].pc = "delay" =>
            /\ Len(task'[t].results) = task'[t].idx
            /\ (task[t].pc # "delay" /\ ~StartsPair(t)) =>
                 /\ task'[t].idx = task[t].idx
                 /\ Len(task'[t].results) = Len(task[t].results) + 1]_vars

(* the second instrument's ticker is awaited after the first instrument's
   order was filled and the pause between them is over *)
C31_Witness ==
  /\ task[1].pc = "ticker"
  /\ task[1].idx = 2
  /\ Len(task[1].results) = 1
  /\ task[1].results[1].executed
  /\ task[1].results[1].instId = TRADING_PAIRS[1]
  /\ Len(orders) = 1

(* ======================= api/positions: POST ======================= *)

(* state.js getPositions: the open positions, each with the cached market
   price of its instrument where there is one *)
getPositions(bs) ==
  [k \in 1..Len(bs.positions) |->
     IF bs.marketPrices[bs.positions[k].instId] = NoMarketPrice
       THEN bs.positions[k]
       ELSE [bs.positions[k] EXCEPT
               !.currentPrice = bs.marketPrices[bs.positions[k].instId].price]]

(* the entry recordTrade is handed for a closed position; the P&L figures
   are left out *)
CloseEntry(pos, exitPrice, mode, reason) ==
  [mode |-> mode, instId |-> pos.instId,
   side |-> IF pos.side = "buy" THEN "sell" ELSE "buy",
   price |-> exitPrice, size |-> pos.size,
   leverage |-> IF pos.leverage = 0 THEN 1 ELSE pos.leverage,
   signal |-> "CLOSE", orderId |-> <<"close", pos.id>>, reason |-> reason,
   action |-> "close", entryPrice |-> pos.entryPrice]

(* a plausible slip: a manual close also clears the instrument's direction *)
ClosedByIdResetsPair(bs, positionId, exitPrice) ==
  LET closedPosition == closePositionResult(bs, positionId)
      closed == closePosition(bs, positionId)
  IN  IF closedPosition = None THEN closed
      ELSE [addLog(closed, <<closedPosition[1].instId, "Position closed @", exitPrice>>,
                   "trade")
              EXCEPT !.pairState[closedPosition[1].instId].lastPosition = NULL]

(* action 'close' from closePosition(positionId) on: the store after it *)
ClosedById(bs, positionId, exitPrice) ==
  LET closedPosition == closePositionResult(bs, positionId)
      closed == closePosition(bs, positionId)
  IN  IF closedPosition = None THEN closed
      ELSE addLog(closed, <<closedPosition[1].instId, "Position closed @", exitPrice>>,
                  "trade")

(* the request in flight is held in fnIn: its action, where it is, the id
   asked for, the positions it read at its start and its place in them *)
NoManual == fnIn.op = NULL

ManualIds == {0} \cup {botState.positions[k].id : k \in 1..Len(botState.positions)}

(* POST {action: 'close', positionId}: up to await getTicker, or, if the id
   is not among the positions, to the 404 *)
CloseStart ==
  /\ NoManual
  /\ task[1].pc = "idle"
  /\ cycles > 0
  /\ \E positionId \in ManualIds :
       LET positions == getPositions(botState)
           found == {k \in 1..Len(positions) : positions[k].id = positionId}
       IN  IF found # {}
             THEN /\ fnIn' = [op |-> "close", pc |-> "ticker", positionId |-> positionId,
                              positions |-> positions,
                              k |-> CHOOSE k \in found : \A j \in found : k <= j]
                  /\ fnOut' = None
             ELSE /\ fnIn' = [op |-> "close", pc |-> "done", positionId |-> positionId,
                              positions |-> positions, k |-> 0]
                  /\ fnOut' = Some([success |-> FALSE, closedPosition |-> None])
  /\ UNCHANGED <<botState, demoMode, env, now, task, tradeHistory, orders, ordSeq,
                 cycles, requests>>

(* await getTicker(posToClose.instId) returns or throws; closePosition and,
   if it returned a position, recordTrade and addLog *)
CloseTickerReturn ==
  /\ fnIn.op = "close"
  /\ fnIn.pc = "ticker"
  /\ \E currentPrice \in {RatOf(p) : p \in TickerPrices}
                         \cup {fnIn.positions[fnIn.k].currentPrice} :
       LET closedPosition == closePositionResult(botState, fnIn.positionId)
           mode == IF isDemoMode THEN "demo"
                   ELSE IF closedPosition[1].mode = NULL THEN "live"
                   ELSE closedPosition[1].mode
       IN  /\ botState' = ClosedById(botState, fnIn.positionId, currentPrice)
           /\ tradeHistory' =
                IF closedPosition = None THEN tradeHistory
                ELSE logTrade(tradeHistory,
                       CloseEntry(closedPosition[1], currentPrice, mode, "Manual close"))
           /\ fnOut' = Some([success |-> closedPosition # None,
                             closedPosition |-> closedPosition])
  /\ fnIn' = [fnIn EXCEPT !.pc = "done"]
  /\ UNCHANGED <<demoMode, env, now, task, orders, ordSeq, cycles, requests>>

(* POST {action: 'closeAll'}: the positions are read; with none to close,
   clearPositions at once *)
CloseAllStart ==
  /\ NoManual
  /\ task[1].pc = "idle"
  /\ cycles > 0
  /\ LET positions == getPositions(botState)
     IN  IF positions = <<>>
           THEN /\ botState' = clearPositions(botState)
                /\ fnIn' = [op |-> "closeAll", pc |-> "done", positionId |-> 0,
                            positions |-> positions, k |-> 0]
                /\ fnOut' = Some([success |-> TRUE, closedPosition |-> None])
           ELSE /\ botState' = botState
                /\ fnIn' = [op |-> "closeAll", pc |-> "ticker", positionId |-> 0,
                            positions |-> positions, k |-> 1]
                /\ fnOut' = None
  /\ UNCHANGED <<demoMode, env, now, task, tradeHistory, orders, ordSeq, cycles,
                 requests>>

(* one turn of the closeAll loop: await getTicker(pos.instId) returns or
   throws, recordTrade, addLog; after the last position, clearPositions *)
CloseAllTickerReturn ==
  /\ fnIn.op = "closeAll"
  /\ fnIn.pc = "ticker"
  /\ LET pos == fnIn.positions[fnIn.k]
         mode == IF pos.mode # NULL THEN pos.mode
                 ELSE IF isDemoMode THEN "demo" ELSE "live"
     IN  \E exitPrice \in {RatOf(p) : p \in TickerPrices} \cup {pos.currentPrice} :
           LET logged == addLog(botState, <<pos.instId, "Position closed @", exitPrice>>,
                                "trade")
           IN  /\ tradeHistory' = logTrade(tradeHistory,
                                    CloseEntry(pos, exitPrice, mode, "Close all"))
               /\ IF fnIn.k < Len(fnIn.positions)
                    THEN /\ botState' = logged
                         /\ fnIn' = [fnIn EXCEPT !.k = @ + 1]
                         /\ fnOut' = None
                    ELSE /\ botState' = clearPositions(logged)
                         /\ fnIn' = [fnIn EXCEPT !.pc = "done"]
                         /\ fnOut' = Some([success |-> TRUE, closedPosition |-> None])
  /\ UNCHANGED <<demoMode, env, now, task, orders, ordSeq, cycles, requests>>

(* the dashboard's timer brings the next cycle after the cooldown window *)
CooldownPasses ==
  /\ task[1].pc = "idle"
  /\ cycles > 0
  /\ cycles < MaxCycles
  /\ now < MaxTime
  /\ now' = now + pairCooldownSeconds * 1000
  /\ UNCHANGED <<botState, demoMode, env, task, tradeHistory, orders, ordSeq,
                 cycles, requests, fnIn, fnOut>>

(* one cycle at a time and one manual close, asked for between two cycles
   and answered at any time after *)
NextManual ==
  \/ CycleStart(1)
  \/ TickerReturn(1)
  \/ CandlesReturn(1)
  \/ OrderPrepared(1)
  \/ OrderReturn(1)
  \/ DelayDone(1)
  \/ StartBot
  \/ CooldownPasses
  \/ CloseStart
  \/ CloseTickerReturn
  \/ CloseAllStart
  \/ CloseAllTickerReturn

SpecManual == Init /\ [][NextManual]_vars

(* the close entries of the trade history for instrument X *)
ClosesOf(history, X) ==
  {k \in 1..Len(history) : history[k].action = "close" /\ history[k].instId = X}

(* ----------------------------------------------------------------------- *)
(* C32: with one cycle at a time, an order filled for X is on the side     *)
(* opposite to that of the fill for X before it, also when X's position    *)
(* was closed manually in between; the fill finds no open position of X on *)
(* its own side, so that addPosition opens a position under the new        *)
(* order's id and never merges.                                            *)
(* ----------------------------------------------------------------------- *)
C32_FillsAlternate ==
  [][ordSeq' = ordSeq + 1 =>
       LET fill == orders'[Len(orders')]
           X == fill.instId
       IN  /\ fill.ok
           /\ FillsOf(X) # {} => orders[LastFillOf(X)].side # fill.side
           /\ \A k \in 1..Len(botState.positions) :
                botState.positions[k].instId = X =>
                  botState.positions[k].side # fill.side
           /\ Len(PositionsSeq(botState', X)) = 1
           /\ PositionsSeq(botState', X)[1].id = ordSeq'
           /\ PositionsSeq(botState', X)[1].side = fill.side
           /\ PositionsSeq(botState', X)[1].size = task[1].loc.tradeSize]_vars

(* a buy and later a sell filled for the same instrument, its position
   closed manually in between *)
C32_Witness ==
  \E X \in Instruments :
    /\ Cardinality(FillsOf(X)) = 2
    /\ \E k, j \in FillsOf(X) : k < j /\ orders[k].side = "buy" /\ orders[j].side = "sell"
    /\ fnIn.op = "close"
    /\ \E c \in ClosesOf(tradeHistory, X) : \E i \in 1..(c - 1) :
         /\ tradeHistory[i].action = "open"
         /\ tradeHistory[i].instId = X
         /\ tradeHistory[i].side = "sell"

(* this step is one of the manual close request *)
ManualStep == fnIn' # fnIn /\ fnIn'.op \in {"close", "closeAll"}

(* ----------------------------------------------------------------------- *)
(* C37: a step of a manual close, by id or of all positions, changes       *)
(* nothing of the store but the positions and the activity log, and        *)
(* besides them only the trade history: every instrument's lastPosition    *)
(* and lastTradeTime are as before, and no order is sent.  So with X's     *)
(* lastPosition long, a BUY signal for X ends the invocation without an    *)
(* order, whether or not X still has an open position.                     *)
(* ----------------------------------------------------------------------- *)
C37_ManualCloseKeepsDirection ==
  [][/\ ManualStep =>
          /\ [botState' EXCEPT !.positions = botState.positions,
                               !.logs = botState.logs] = botState
          /\ botState'.pairState = botState.pairState
          /\ orders' = orders
          /\ ordSeq' = ordSeq
          /\ task' = task
          /\ demoMode' = demoMode
     /\ (/\ task[1].pc = "candles"
         /\ task'[1] # task[1]
         /\ botState.pairState[CurInst(1)].lastPosition = "long"
         /\ botState'.pairState[CurInst(1)].signal = "BUY"
         /\ botState'.marketPrices # botState.marketPrices) =>
          /\ task'[1].pc = "delay"
          /\ ~LastResult(task'[1]).executed
          /\ LastResult(task'[1]).reason = <<"decision", "Already in long position">>
          /\ orders' = orders]_vars

(* X's long was closed by id, the cooldown went by, and the next cycle's
   BUY signal for X was turned down with no position of X open *)
C37_Witness ==
  \E k \in 1..Len(task[1].results) :
    LET r == task[1].results[k]
    IN  /\ fnIn.op = "close"
        /\ fnIn.pc = "done"
        /\ cycles = 2
        /\ ClosesOf(tradeHistory, r.instId) # {}
        /\ PositionsSeq(botState, r.instId) = <<>>
        /\ botState.pairState[r.instId].lastPosition = "long"
        /\ r.signal = "BUY"
        /\ ~r.executed
        /\ r.reason = <<"decision", "Already in long position">>

(* the ids under which the trade history holds a close entry *)
ClosedIds(history) ==
  {history[k].orderId[2] : k \in {j \in 1..Len(history) : history[j].action = "close"}}

(* ----------------------------------------------------------------------- *)
(* C36: in the step in which close-all empties the positions, every        *)
(* position it removes has a close entry in the trade history, also when   *)
(* a cycle opened, merged or flipped a position while close-all was        *)
(* waiting for its exit prices.                                            *)
(* ----------------------------------------------------------------------- *)
C36_ClosedAllRecorded ==
  [][(/\ fnIn'.op = "closeAll"
      /\ fnIn'.pc = "done"
      /\ fnIn' # fnIn) =>
       /\ botState'.positions = <<>>
       /\ \A k \in 1..Len(botState.positions) :
            botState.positions[k].id \in ClosedIds(tradeHistory')]_vars

(* ======================= the log of a failed order ======================= *)

(* where the log holds the trade-typed entry written ahead of an order for
   X (instrument, side, price, size, leverage), and where the one written
   after X's order was filled *)
AnnouncedAt(logs, X) ==
  {k \in 1..Len(logs) : /\ logs[k].type = "trade"
                        /\ Len(logs[k].message) = 5
                        /\ logs[k].message[1] = X}

FilledAt(logs, X) ==
  {k \in 1..Len(logs) : /\ logs[k].type = "trade"
                        /\ Len(logs[k].message) = 3
                        /\ logs[k].message[1] = X}

(* this step ends an invocation whose order was not placed: placeMarketOrder
   threw, in its preparation or at the order request *)
OrderFails ==
  /\ task[1].pc \in {"order", "orderSend"}
  /\ task'[1].pc \notin {"order", "orderSend"}
  /\ ordSeq' = ordSeq

(* ----------------------------------------------------------------------- *)
(* C38: when the order of an invocation for X fails, the invocation has    *)
(* written only error-typed entries: the newest entry is the error, and    *)
(* every trade-typed entry about an order for X stems from an order that   *)
(* was filled, so that a newer "Order filled" entry for X follows it.      *)
(* ----------------------------------------------------------------------- *)
C38_FailedOrderLogsErrorsOnly ==
  [][OrderFails =>
       /\ botState'.logs[1].type = "error"
       /\ \A k \in AnnouncedAt(botState'.logs, CurInst(1)) :
            \E j \in FilledAt(botState'.logs, CurInst(1)) : j < k]_vars

(* ======================= stop and mode requests during a cycle ======================= *)

(* this step hands an order to the exchange: placeMarketOrder has its
   headers and goes on to the order request *)
OrderSubmitted == task[1].pc = "order" /\ task'[1].pc = "orderSend"

(* ----------------------------------------------------------------------- *)
(* C34: once a stop request is handled (isRunning false) no order is       *)
(* submitted before the next start, also not by a cycle that was under way *)
(* when the stop came; and a cycle trigger while the bot is not running    *)
(* starts nothing: the cycle task stays idle.                              *)
(* ----------------------------------------------------------------------- *)
C34_NoOrderAfterStop ==
  [][/\ OrderSubmitted => botState.isRunning
     /\ (task[1].pc = "idle" /\ task'[1] # task[1]) => botState.isRunning]_vars

(* one cycle at a time with both sets of keys configured, and the demo
   switch of the settings page thrown at any await *)
NextMode ==
  \/ CycleStart(1)
  \/ TickerReturn(1)
  \/ CandlesReturn(1)
  \/ OrderPrepared(1)
  \/ OrderReturn(1)
  \/ DelayDone(1)
  \/ StartBot
  \/ SetDemoMode

SpecMode == Init /\ [][NextMode]_vars

(* the mode an order went to the exchange in, as the pipeline names modes *)
SentMode(order) == IF order.demo THEN "demo" ELSE "live"

(* ----------------------------------------------------------------------- *)
(* C35: when an order is filled, the position opened for it and its entry  *)
(* in the trade history carry the mode the order was sent in (the demo     *)
(* flag of its request headers), also when the demo setting was changed    *)
(* while the cycle was under way.                                          *)
(* ----------------------------------------------------------------------- *)
C35_RecordedModeIsSentMode ==
  [][ordSeq' = ordSeq + 1 =>
       LET order == orders'[Len(orders')]
       IN  /\ tradeHistory'[1].orderId = ordSeq'
           /\ tradeHistory'[1].mode = SentMode(order)
           /\ \A k \in 1..Len(botState'.positions) :
                botState'.positions[k].id = ordSeq' =>
                  botState'.positions[k].mode = SentMode(order)]_vars

(* ======================= two cycles at once ======================= *)

(* the timed cycle, and a manual trigger that arrives while the timed cycle
   is at its first instrument: the two invocations of executeTradingCycle
   take turns at their awaits *)
TimedStart == cycles = 0 /\ CycleStart(1)

OverlapStart == task[1].pc # "idle" /\ task[1].idx = 1 /\ CycleStart(2)

(* the exchange answers the ticker request *)
TickerAnswers(t) == TickerReturn(t) /\ task'[t].pc = "candles"

(* the exchange answers the candles request *)
CandlesAnswer(t) ==
  /\ CandlesReturn(t)
  /\ task'[t].pc = "order" \/ task'[t].results[Len(task'[t].results)].reason[1] = "decision"

(* placeMarketOrder gets as far as the order request *)
OrderGoesOut(t) == OrderPrepared(t) /\ task'[t].pc = "orderSend"

NextOverlap ==
  \/ TimedStart
  \/ TickerAnswers(1)
  \/ CandlesAnswer(1)
  \/ OrderGoesOut(1)
  \/ OrderReturn(1)
  \/ DelayDone(1)
  \/ OverlapStart
  \/ TickerAnswers(2)
  \/ CandlesAnswer(2)
  \/ OrderGoesOut(2)
  \/ OrderReturn(2)
  \/ DelayDone(2)
  \/ StartBot

SpecOverlap == Init /\ [][NextOverlap]_vars

(* ----------------------------------------------------------------------- *)
(* C33: also with two cycle invocations overlapping, two orders filled for *)
(* the same instrument lie at least one cooldown window apart, and two     *)
(* fills for an instrument that follow one another are on opposite sides.  *)
(* ----------------------------------------------------------------------- *)
C33_OverlapKeepsCooldown ==
  \A X \in Instruments : \A k, j \in FillsOf(X) :
    k < j =>
      /\ orders[j].time - orders[k].time >= pairCooldownSeconds * 1000
      /\ (\A i \in FillsOf(X) : ~(k < i /\ i < j)) => orders[k].side # orders[j].side

(* ======================= okxClient: waitForRateLimit ======================= *)

(* Requests of several route handlers go through withRetry at once.  fnIn
   holds the module's lastRequestTime, for every request where it is in
   waitForRateLimit and when its timer is due, and the times at which fn()
   was called so far. *)
MaxWaiters == 3
MaxLimiterTicks == 6
LimiterStep == MIN_REQUEST_INTERVAL \div 2
Waiters == 1..MaxWaiters

InitLimiter ==
  /\ botState = InitBotState
  /\ demoMode = FALSE
  /\ env = [live |-> TRUE, demo |-> TRUE]
  /\ now = StartTime
  /\ task = [t \in AllTasks |-> IdleTask]
  /\ tradeHistory = <<>>
  /\ orders = <<>>
  /\ ordSeq = 0
  /\ cycles = 0
  /\ requests = 0
  /\ fnIn = [op |-> "waitForRateLimit", lastRequestTime |-> 0,
             req |-> [r \in Waiters |-> [pc |-> "idle", wake |-> 0]],
             starts |-> <<>>]
  /\ fnOut = None

(* waitForRateLimit from its last line on: lastRequestTime = Date.now(), and
   back in withRetry fn() is called *)
LimiterPassed(lim, r) ==
  [lim EXCEPT !.lastRequestTime = now,
              !.req[r].pc = "called",
              !.starts = Append(@, [request |-> r, time |-> now])]

(* withRetry calls waitForRateLimit: up to the await of the timer, or, with
   the last request long enough ago, through to the call of fn() *)
LimiterEnter(r) ==
  /\ fnIn.req[r].pc = "idle"
  /\ LET timeSinceLastRequest == now - fnIn.lastRequestTime
     IN  fnIn' = IF timeSinceLastRequest < MIN_REQUEST_INTERVAL
                   THEN [fnIn EXCEPT !.req[r].pc = "waiting",
                           !.req[r].wake = now + (MIN_REQUEST_INTERVAL - timeSinceLastRequest)]
                   ELSE LimiterPassed(fnIn, r)
  /\ UNCHANGED <<botState, demoMode, env, now, task, tradeHistory, orders, ordSeq,
                 cycles, requests, fnOut>>

(* the timer of a waiting request fires *)
LimiterWake(r) ==
  /\ fnIn.req[r].pc = "waiting"
  /\ fnIn.req[r].wake <= now
  /\ fnIn' = LimiterPassed(fnIn, r)
  /\ UNCHANGED <<botState, demoMode, env, now, task, tradeHistory, orders, ordSeq,
                 cycles, requests, fnOut>>

(* time passes, once the timers that are due have fired *)
LimiterTick ==
  /\ now < StartTime + MaxLimiterTicks * LimiterStep
  /\ \A r \in Waiters : fnIn.req[r].pc = "waiting" => fnIn.req[r].wake > now
  /\ now' = now + LimiterStep
  /\ UNCHANGED <<botState, demoMode, env, task, tradeHistory, orders, ordSeq,
                 cycles, requests, fnIn, fnOut>>

NextLimiter ==
  \/ \E r \in Waiters : LimiterEnter(r)
  \/ \E r \in Waiters : LimiterWake(r)
  \/ LimiterTick

SpecLimiter == InitLimiter /\ [][NextLimiter]_vars

(* ----------------------------------------------------------------------- *)
(* C39: any two calls made through withRetry start at least                *)
(* MIN_REQUEST_INTERVAL apart, also when several requests wait in          *)
(* waitForRateLimit at once.                                               *)
(* ----------------------------------------------------------------------- *)
C39_StartsSpaced ==
  \A i, j \in 1..Len(fnIn.starts) :
    i < j => fnIn.starts[j].time - fnIn.starts[i].time >= MIN_REQUEST_INTERVAL

(* ======================= progress of a cycle ======================= *)

(* Every exchange call returns or fails (withRetry makes at most maxRetries
   calls) and every timer fires: each await of the cycle is taken once it is
   pending. *)
Fairness ==
  /\ WF_vars(TickerReturn(1))
  /\ WF_vars(CandlesReturn(1))
  /\ WF_vars(OrderPrepared(1))
  /\ WF_vars(OrderReturn(1))
  /\ WF_vars(DelayDone(1))

(* the cycle's steps and the bot's start; the clock stands still *)
NextLive ==
  \/ CycleStart(1)
  \/ TickerReturn(1)
  \/ CandlesReturn(1)
  \/ OrderPrepared(1)
  \/ OrderReturn(1)
  \/ DelayDone(1)
  \/ StartBot

SpecLive == Init /\ [][NextLive]_vars /\ Fairness

(* ----------------------------------------------------------------------- *)
(* C18: a cycle that has started its loop eventually returns a report      *)
(* with one result for each instrument of TRADING_PAIRS.                   *)
(* ----------------------------------------------------------------------- *)
C18_CycleCompletes ==
  (task[1].pc # "idle") ~>
    (/\ task[1].pc = "idle"
     /\ ConfiguredReport(1)
     /\ Len(task[1].report.trades) = Len(TRADING_PAIRS))

(* a finished cycle whose first pair failed and whose last pair was evaluated *)
C18_Witness ==
  /\ task[1].pc = "idle"
  /\ ConfiguredReport(1)
  /\ Len(task[1].report.trades) = Len(TRADING_PAIRS)
  /\ task[1].report.trades[1].reason[1] = "error"
  /\ task[1].report.trades[Len(TRADING_PAIRS)].reason[1] = "decision"

====
